---- MODULE Spec2Model ----
(***************************************************************************)
(* A model of ui-elf: the type registry (internal/registry), the Vue and   *)
(* React parsers (internal/scanner) and the concurrent ComponentScanner.   *)
(* Go strings are TLA+ strings; a character is a string of length one.     *)
(***************************************************************************)
EXTENDS Naturals, Integers, Sequences, FiniteSets, Bags, TLC

VARIABLES
    mappings,     \* ComponentMappingRegistry.mappings
    parsers,      \* ComponentScanner.parsers
    files,        \* Scan's argument files
    componentType,\* Scan's argument componentType
    mainPc,       \* position of the goroutine that called Scan
    spawned,      \* number of iterations of the range loop already run
    wg,           \* the WaitGroup counter
    matchChan,    \* buffered messages of matchChan, oldest first
    chanClosed,   \* close(matchChan) has run
    workerPc,     \* position of each per-file goroutine
    parser,       \* each per-file goroutine's local `parser`: its position in
                  \* parsers, 0 for nil
    content,      \* each per-file goroutine's local `content`
    closerPc,     \* position of the closer goroutine
    allMatches,   \* the collector's allMatches
    ret,          \* what Scan returned: [result, err]
    panicked,     \* the runtime panicked (a send on the closed channel)
    queryName,    \* MatchesComponentType's argument componentName
    queryType,    \* MatchesComponentType's argument componentType
    queryPc,      \* position of a caller of MatchesComponentType
    queryResult,  \* the value MatchesComponentType returned
    parseKind,    \* which parser Parse is invoked on: "vue" or "react"
    parseContent, \* Parse's argument fileContent
    parsePc,      \* position inside Parse
    templateMatches, \* VueParser.Parse's local templateMatches
    jsxMatches,   \* VueParser.Parse's local jsxMatches
    matches,      \* Parse's local (and returned) matches
    parseErr,     \* the error Parse returned, Unreturned before the return
    supportPath,  \* SupportsFile's argument filePath
    supportPc,    \* position of a caller of the two SupportsFile methods
    vueSupports,  \* what VueParser.SupportsFile returned
    reactSupports,\* what ReactParser.SupportsFile returned
    options,      \* the CLIOptions handed to the Controller's methods
    execPc,       \* position inside Controller.executeScan
    execFiles,    \* executeScan's local `files`
    execRet,      \* what executeScan returned: [result, err]
    validatePc,   \* position of a caller of Controller.validateOptions
    validateErr,  \* the error validateOptions returned
    discRoot,     \* DiscoverFiles' argument rootDir
    discFilter,   \* DiscoverFiles' argument filter
    discPos,      \* how many entries filepath.Walk has visited
    discFiles,    \* DiscoverFiles' local `files`
    discErr,      \* the error DiscoverFiles returned
    discPc,       \* position inside DiscoverFiles
    writeResult,  \* Write's argument result
    writeFormat,  \* Write's argument format
    writePath,    \* Write's argument outputPath
    disk,         \* the content of each file Write can create or replace
    stdout,       \* what has been printed on the standard output
    writeErr,     \* the error Write returned
    writePc,      \* position of a caller of OutputFormatter.Write
    filterMatches,\* filterByComponentType's argument matches: the caller's slice
    filterType,   \* filterByComponentType's argument componentType
    filterIdx,    \* how many elements the range loop has visited
    filtered,     \* filterByComponentType's local (and returned) filtered
    filterPc,     \* position inside filterByComponentType
    flags,        \* the flag values of the command Controller.run is called for
    runPc,        \* position inside Controller.run
    runErr        \* the error run returned

scanVars == <<parsers, files, componentType, mainPc, spawned, wg, matchChan,
              chanClosed, workerPc, parser, content, closerPc, allMatches, ret,
              panicked>>
queryVars == <<queryName, queryType, queryPc, queryResult>>
parseVars == <<parseKind, parseContent, parsePc, templateMatches, jsxMatches,
               matches, parseErr>>
supportVars == <<supportPath, supportPc, vueSupports, reactSupports>>
execVars == <<options, execPc, execFiles, execRet>>
validateVars == <<validatePc, validateErr>>
discVars == <<discRoot, discFilter, discPos, discFiles, discErr, discPc>>
writeVars == <<writeResult, writeFormat, writePath, disk, stdout, writeErr, writePc>>
filterVars == <<filterMatches, filterType, filterIdx, filtered, filterPc>>
runVars == <<flags, runPc, runErr>>
appVars == <<supportVars, execVars, validateVars, discVars, writeVars, filterVars, runVars>>
vars == <<mappings, scanVars, queryVars, parseVars, appVars>>

(***************************************************************************)
(* Bounds of the model.                                                    *)
(***************************************************************************)
MaxFiles == 2
MaxFragments == 3

Nil == "nil"
Unreturned == "unreturned"

(***************************************************************************)
(* strings                                                                 *)
(***************************************************************************)
CharAt(s, i) == SubSeq(s, i, i)
Range(seq) == {seq[k] : k \in DOMAIN seq}

UpperToLower ==
    [A |-> "a", B |-> "b", C |-> "c", D |-> "d", E |-> "e", F |-> "f", G |-> "g",
     H |-> "h", I |-> "i", J |-> "j", K |-> "k", L |-> "l", M |-> "m", N |-> "n",
     O |-> "o", P |-> "p", Q |-> "q", R |-> "r", S |-> "s", T |-> "t", U |-> "u",
     V |-> "v", W |-> "w", X |-> "x", Y |-> "y", Z |-> "z"]

UpperLetters == DOMAIN UpperToLower
LowerLetters == {UpperToLower[c] : c \in UpperLetters}
Digits == {"0", "1", "2", "3", "4", "5", "6", "7", "8", "9"}
Whitespace == {" ", "\t", "\n", "\r", "\f"}

LowerChar(c) == IF c \in UpperLetters THEN UpperToLower[c] ELSE c

RECURSIVE ToLower(_)
ToLower(s) == IF Len(s) = 0 THEN s ELSE LowerChar(CharAt(s, 1)) \o ToLower(Tail(s))

\* strings.EqualFold on ASCII text: equal length and equal under case folding,
\* character by character.
RECURSIVE EqualFoldFrom(_, _, _)
EqualFoldFrom(s, t, i) ==
    IF i > Len(s) THEN TRUE
    ELSE /\ LowerChar(CharAt(s, i)) = LowerChar(CharAt(t, i))
         /\ EqualFoldFrom(s, t, i + 1)

EqualFoldExact(s, t) == s = t
EqualFoldPrefix(s, t) == Len(s) >= Len(t) /\ EqualFoldFrom(t, s, 1)
EqualFold(s, t) == Len(s) = Len(t) /\ EqualFoldFrom(s, t, 1)

HasSuffix(s, suffix) ==
    /\ Len(s) >= Len(suffix)
    /\ SubSeq(s, Len(s) - Len(suffix) + 1, Len(s)) = suffix

\* strings.Index from position `from` (1-based); 0 when sub does not occur.
RECURSIVE IndexFrom(_, _, _)
IndexFrom(s, sub, from) ==
    IF from + Len(sub) - 1 > Len(s) THEN 0
    ELSE IF SubSeq(s, from, from + Len(sub) - 1) = sub THEN from
    ELSE IndexFrom(s, sub, from + 1)

\* strings.Contains
Contains(s, substr) == IndexFrom(s, substr, 1) # 0

HasPrefix(s, prefix) ==
    /\ Len(s) >= Len(prefix)
    /\ SubSeq(s, 1, Len(prefix)) = prefix

\* strings.Split(s, sep) for a separator of one character
RECURSIVE Split(_, _)
Split(s, sep) ==
    LET at == IndexFrom(s, sep, 1)
    IN  IF at = 0 THEN <<s>>
        ELSE <<SubSeq(s, 1, at - 1)>> \o Split(SubSeq(s, at + 1, Len(s)), sep)

\* strings.Count(s, "\n")
RECURSIVE CountNewlines(_)
CountNewlines(s) ==
    IF Len(s) = 0 THEN 0
    ELSE (IF CharAt(s, 1) = "\n" THEN 1 ELSE 0) + CountNewlines(Tail(s))

\* strings.Split(s, "\n")
RECURSIVE SplitLines(_)
SplitLines(s) ==
    LET nl == IndexFrom(s, "\n", 1)
    IN  IF nl = 0 THEN <<s>>
        ELSE <<SubSeq(s, 1, nl - 1)>> \o SplitLines(SubSeq(s, nl + 1, Len(s)))

(***************************************************************************)
(* internal/registry                                                       *)
(***************************************************************************)
NewComponentMappingRegistry ==
    [form |->
        [Type |-> "form",
         Patterns |-> [native |-> <<"form">>,
                       quasar |-> <<"q-form", "QForm">>,
                       material |-> <<"v-form", "VForm", "Form", "MuiForm">>]],
     button |->
        [Type |-> "button",
         Patterns |-> [native |-> <<"button">>,
                       quasar |-> <<"q-btn", "QBtn">>,
                       material |-> <<"v-btn", "VBtn", "Button", "MuiButton">>]],
     dialog |->
        [Type |-> "dialog",
         Patterns |-> [native |-> <<"dialog">>,
                       quasar |-> <<"q-dialog", "QDialog">>,
                       material |-> <<"v-dialog", "VDialog", "Dialog", "MuiDialog">>]]]

GetMapping(r, cType) ==
    LET key == ToLower(cType)
    IN  [exists |-> key \in DOMAIN r,
         mapping |-> IF key \in DOMAIN r THEN r[key] ELSE Nil]

MatchesComponentType(r, componentName, cType) ==
    \E m \in {GetMapping(r, cType)} :
        IF ~m.exists
        THEN EqualFold(componentName, cType)
        ELSE \E lib \in DOMAIN m.mapping.Patterns :
                \E pattern \in Range(m.mapping.Patterns[lib]) :
                    EqualFold(componentName, pattern)

(***************************************************************************)
(* internal/scanner: the parsers                                           *)
(***************************************************************************)
ComponentMatch(filePath, line, name, cType) ==
    [FilePath |-> filePath, Line |-> line, ComponentName |-> name,
     ComponentType |-> cType]

Letters == UpperLetters \cup LowerLetters
\* the character classes of the two tag patterns
TemplateFirst == Letters
TemplateRest == Letters \cup Digits \cup {"-"}
JSXFirst == UpperLetters
JSXRest == Letters \cup Digits
\* [\s>/]
TagEnd == Whitespace \cup {">", "/"}

\* the last position of the longest run of characters of `class` that starts
\* at position i (i - 1 when the run is empty)
RECURSIVE RunEnd(_, _, _)
RunEnd(line, i, class) ==
    IF i <= Len(line) /\ CharAt(line, i) \in class
    THEN RunEnd(line, i + 1, class)
    ELSE i - 1

\* <([first][rest]*)(?:[\s>/]|$) matched at position p of line: the name
\* captured and the position of the last character consumed, or found = FALSE.
\* The name run is greedy and no shorter run can be followed by [\s>/] or the
\* end of the text, so only the longest run is tried.
TagMatchAt(line, p, first, rest) ==
    IF /\ p + 1 <= Len(line)
       /\ CharAt(line, p) = "<"
       /\ CharAt(line, p + 1) \in first
    THEN LET q == RunEnd(line, p + 2, rest)
         IN  IF q = Len(line)
             THEN [found |-> TRUE, name |-> SubSeq(line, p + 1, q), last |-> q]
             ELSE IF CharAt(line, q + 1) \in TagEnd
             THEN [found |-> TRUE, name |-> SubSeq(line, p + 1, q), last |-> q + 1]
             ELSE [found |-> FALSE, name |-> "", last |-> p]
    ELSE [found |-> FALSE, name |-> "", last |-> p]

\* componentRegex.FindAllStringSubmatch(line, -1): the captured names of the
\* leftmost non-overlapping matches, from position `from` on.
RECURSIVE FindAllTags(_, _, _, _)
FindAllTags(line, from, first, rest) ==
    IF from > Len(line) THEN <<>>
    ELSE LET m == TagMatchAt(line, from, first, rest)
         IN  IF m.found
             THEN <<m.name>> \o FindAllTags(line, m.last + 1, first, rest)
             ELSE FindAllTags(line, from + 1, first, rest)

htmlTags ==
    {"div", "span", "p", "a", "img",
     "ul", "ol", "li", "table", "tr",
     "td", "th", "thead", "tbody", "tfoot",
     "h1", "h2", "h3", "h4", "h5", "h6",
     "header", "footer", "nav", "section", "article",
     "aside", "main", "input", "textarea", "select",
     "option", "label", "fieldset", "legend",
     "strong", "em", "b", "i", "u",
     "br", "hr", "pre", "code", "blockquote",
     "iframe", "video", "audio", "canvas", "svg",
     "path", "circle", "rect", "line", "polygon",
     "template", "slot", "script", "style", "link",
     "meta", "title", "head", "body", "html",
     "button", "form", "dialog"}

\* the denylist looked up without the all-lowercase test
isHTMLTagAnyCase(tagName) == ToLower(tagName) \in htmlTags

isHTMLTag(tagName) ==
    LET lowerTag == ToLower(tagName)
    IN  lowerTag = tagName /\ lowerTag \in htmlTags

\* seenComponents[componentName][lineIdx], kept as a set of <<name, lineIdx>>
SeenOnAnyLine(seen, name, lineIdx) == \E pair \in seen : pair[1] = name
SeenOnLine(seen, name, lineIdx) == <<name, lineIdx>> \in seen

\* the inner loop over one line's regexp matches (names), from the k-th on
RECURSIVE LineLoop(_, _, _, _, _, _, _)
LineLoop(names, k, lineIdx, st, filePath, baseLineNumber, skipHTML) ==
    IF k > Len(names) THEN st
    ELSE LET componentName == names[k]
             next ==
                IF skipHTML /\ isHTMLTag(componentName) THEN st
                ELSE IF SeenOnLine(st.seen, componentName, lineIdx) THEN st
                ELSE [seen |-> st.seen \cup {<<componentName, lineIdx>>},
                      matches |-> Append(st.matches,
                          ComponentMatch(filePath, baseLineNumber + lineIdx,
                                         componentName, ""))]
         IN  LineLoop(names, k + 1, lineIdx, next, filePath, baseLineNumber, skipHTML)

\* the outer loop over the lines, from the one with (zero-based) index lineIdx
RECURSIVE LinesLoop(_, _, _, _, _, _, _, _)
LinesLoop(lines, lineIdx, st, filePath, baseLineNumber, first, rest, skipHTML) ==
    IF lineIdx >= Len(lines) THEN st
    ELSE LinesLoop(lines, lineIdx + 1,
                   LineLoop(FindAllTags(lines[lineIdx + 1], 1, first, rest), 1,
                            lineIdx, st, filePath, baseLineNumber, skipHTML),
                   filePath, baseLineNumber, first, rest, skipHTML)

EmptyScan == [seen |-> {}, matches |-> <<>>]

parseTemplateComponents(templateContent, filePath, baseLineNumber) ==
    LinesLoop(SplitLines(templateContent), 0, EmptyScan, filePath, baseLineNumber,
              TemplateFirst, TemplateRest, TRUE).matches

\* the script pass with the pattern of the template pass
parseJSXAsTemplate(scriptContent, filePath, baseLineNumber) ==
    LinesLoop(SplitLines(scriptContent), 0, EmptyScan, filePath, baseLineNumber,
              TemplateFirst, TemplateRest, FALSE).matches

parseJSXComponents(scriptContent, filePath, baseLineNumber) ==
    LinesLoop(SplitLines(scriptContent), 0, EmptyScan, filePath, baseLineNumber,
              JSXFirst, JSXRest, FALSE).matches

\* the whole-file pass with the template pattern in place of the JSX pattern
parseReactAsTemplate(fileContent, filePath, baseLineNumber) ==
    LinesLoop(SplitLines(fileContent), 0, EmptyScan, filePath, baseLineNumber,
              TemplateFirst, TemplateRest, FALSE).matches

parseReactJSXComponents(fileContent, filePath, baseLineNumber) ==
    LinesLoop(SplitLines(fileContent), 0, EmptyScan, filePath, baseLineNumber,
              JSXFirst, JSXRest, FALSE).matches

\* the line base taken where the opening delimiter starts
ExtractSectionDelimiterLine(text, tag) ==
    LET open == "<" \o tag
        close == "</" \o tag \o ">"
        p == IndexFrom(text, open, 1)
        g == IF p = 0 THEN 0 ELSE IndexFrom(text, ">", p + Len(open))
        c == IF g = 0 THEN 0 ELSE IndexFrom(text, close, g + 1)
    IN  IF c = 0
        THEN [content |-> "", startLine |-> 0]
        ELSE [content |-> SubSeq(text, g + 1, c - 1),
              startLine |-> CountNewlines(SubSeq(text, 1, p)) + 1]

\* the last position at or after `from` at which sub occurs in s, 0 when it
\* does not occur there
RECURSIVE LastIndexFrom(_, _, _)
LastIndexFrom(s, sub, from) ==
    IF IndexFrom(s, sub, from) = 0 THEN 0
    ELSE IF LastIndexFrom(s, sub, IndexFrom(s, sub, from) + 1) # 0
    THEN LastIndexFrom(s, sub, IndexFrom(s, sub, from) + 1)
    ELSE IndexFrom(s, sub, from)

\* the group made greedy, (?s)<tag[^>]*>(.*)</tag>: the region runs to the
\* last closing delimiter
ExtractSectionGreedy(text, tag) ==
    LET open == "<" \o tag
        close == "</" \o tag \o ">"
        p == IndexFrom(text, open, 1)
        g == IF p = 0 THEN 0 ELSE IndexFrom(text, ">", p + Len(open))
        c == IF g = 0 THEN 0 ELSE LastIndexFrom(text, close, g + 1)
    IN  IF c = 0
        THEN [content |-> "", startLine |-> 0]
        ELSE [content |-> SubSeq(text, g + 1, c - 1),
              startLine |-> CountNewlines(SubSeq(text, 1, g)) + 1]

\* (?s)<tag[^>]*>(.*?)</tag> on content: the leftmost match starts at the
\* first "<tag", its opening delimiter ends at the first ">" after that, and
\* the lazy group ends at the first "</tag>" after the delimiter.
ExtractSection(text, tag) ==
    LET open == "<" \o tag
        close == "</" \o tag \o ">"
        p == IndexFrom(text, open, 1)
        g == IF p = 0 THEN 0 ELSE IndexFrom(text, ">", p + Len(open))
        c == IF g = 0 THEN 0 ELSE IndexFrom(text, close, g + 1)
    IN  IF c = 0
        THEN [content |-> "", startLine |-> 0]
        ELSE [content |-> SubSeq(text, g + 1, c - 1),
              startLine |-> CountNewlines(SubSeq(text, 1, g)) + 1]

extractTemplateSection(text) == ExtractSection(text, "template")
extractScriptSection(text) == ExtractSection(text, "script")

\* the template pass of VueParser.Parse (lines 122-126)
VueTemplatePass(fileContent, filePath) ==
    LET t == extractTemplateSection(fileContent)
    IN  IF t.content # ""
        THEN parseTemplateComponents(t.content, filePath, t.startLine)
        ELSE <<>>

\* a script pass that is skipped when the file has no template region
VueScriptPassAfterTemplate(fileContent, filePath) ==
    LET s == extractScriptSection(fileContent)
    IN  IF s.content # "" /\ extractTemplateSection(fileContent).content # ""
        THEN parseJSXComponents(s.content, filePath, s.startLine)
        ELSE <<>>

\* the script pass of VueParser.Parse (lines 129-133)
VueScriptPass(fileContent, filePath) ==
    LET s == extractScriptSection(fileContent)
    IN  IF s.content # ""
        THEN parseJSXComponents(s.content, filePath, s.startLine)
        ELSE <<>>

VueParse(fileContent, filePath) ==
    [matches |-> VueTemplatePass(fileContent, filePath)
                    \o VueScriptPass(fileContent, filePath),
     err |-> Nil]

ReactParse(fileContent, filePath) ==
    [matches |-> parseReactJSXComponents(fileContent, filePath, 1), err |-> Nil]

\* the suffix test without the lower-casing
VueSupportsFileExact(filePath) == HasSuffix(filePath, ".vue")

VueSupportsFile(filePath) ==
    \E lowerPath \in {ToLower(filePath)} : HasSuffix(lowerPath, ".vue")

ReactSupportsFile(filePath) ==
    \E lowerPath \in {ToLower(filePath)} :
        HasSuffix(lowerPath, ".jsx") \/ HasSuffix(lowerPath, ".tsx")

(***************************************************************************)
(* The inputs: a file system, the paths a caller passes and the types it   *)
(* asks for.                                                               *)
(***************************************************************************)
\* the readable files and their content; os.ReadFile fails for any other path
FileSystem ==
    [f \in {"a.vue", "b.tsx", "n.txt", "src/App.vue", "src/components/Form.tsx",
            "src/widgets.vue/In.jsx"} |->
        CASE f = "src/App.vue" -> "<template>\n<q-form/>\n</template>"
          [] f = "src/components/Form.tsx" -> "<Form>\n<Button/>"
          [] f = "src/widgets.vue/In.jsx" -> "<Form/>"
          [] f = "a.vue" ->
                "<template>\n<q-form><form>\n<Widget/><q-form />\n</template>\n"
                    \o "<script>\nx = <Form/>\n</script>"
          [] f = "b.tsx" -> "<Button>a</Button><Button/>\n<Form>\n<button>"
          [] f = "n.txt" -> "<Form>"]

Paths == {"a.vue", "b.tsx", "n.txt", "gone.vue"}
RequestedTypes == {"form", "Button", "Widget", "custom"}

SeqsUpTo(S, n) == UNION {[1..k -> S] : k \in 0..n}

(***************************************************************************)
(* internal/scanner: ComponentScanner                                      *)
(***************************************************************************)
\* s.parsers as executeScan builds it: the Vue parser, then the React parser
Parsers == <<"vue", "react">>

SupportsFile(p, filePath) ==
    IF p = "vue" THEN VueSupportsFile(filePath) ELSE ReactSupportsFile(filePath)

Parse(p, fileContent, filePath) ==
    IF p = "vue" THEN VueParse(fileContent, filePath)
    ELSE ReactParse(fileContent, filePath)

\* Parse, tabulated over the contents of the file system and the paths
ParseTable ==
    [p \in Range(Parsers), fileContent \in Range(FileSystem),
     filePath \in Paths \cup DOMAIN FileSystem |->
        Parse(p, fileContent, filePath)]

\* the loop run to its end, a later parser that supports the path replacing
\* an earlier one
RECURSIVE selectLoopNoBreak(_, _)
selectLoopNoBreak(filePath, k) ==
    IF k > Len(parsers) THEN 0
    ELSE IF selectLoopNoBreak(filePath, k + 1) # 0
    THEN selectLoopNoBreak(filePath, k + 1)
    ELSE IF SupportsFile(parsers[k], filePath) THEN k
    ELSE 0

\* the parser-selection loop of the per-file goroutine, from the k-th parser
\* on: the position in s.parsers of the first parser that supports the path,
\* 0 when the loop ends with parser == nil
RECURSIVE selectLoop(_, _)
selectLoop(filePath, k) ==
    IF k > Len(parsers) THEN 0
    ELSE IF SupportsFile(parsers[k], filePath) THEN k
    ELSE selectLoop(filePath, k + 1)

SelectParser(filePath) == selectLoop(filePath, 1)

RECURSIVE filterLoop(_, _, _, _, _)
filterLoop(r, ms, k, cType, kept) ==
    IF k > Len(ms) THEN kept
    ELSE filterLoop(r, ms, k + 1, cType,
            IF MatchesComponentType(r, ms[k].ComponentName, cType)
            THEN Append(kept, [ms[k] EXCEPT !.ComponentType = cType])
            ELSE kept)

filterByComponentTypeLowered(r, ms, cType) == filterLoop(r, ms, 1, ToLower(cType), <<>>)
filterByComponentType(r, ms, cType) == filterLoop(r, ms, 1, cType, <<>>)

Workers == 1..Len(files)

\* ret before Scan has returned: a nil *ScanResult and a nil error
NoReturn ==
    [result |-> [Matches |-> <<>>, TotalCount |-> 0, ComponentType |-> "",
                 ScannedFiles |-> 0],
     resultIsNil |-> TRUE,
     err |-> Nil]

\* matchChan <- msg on a channel made with capacity 1
SendCapacityOne(msg) ==
    /\ Len(matchChan) < 1
    /\ matchChan' = Append(matchChan, msg)
    /\ panicked' = (panicked \/ chanClosed)

\* matchChan <- msg: blocks while the buffer (capacity len(files)) is full,
\* panics when the channel is closed
Send(msg) ==
    /\ Len(matchChan) < Len(files)
    /\ matchChan' = Append(matchChan, msg)
    /\ panicked' = (panicked \/ chanClosed)

\* the state of a call of Scan before its first step
ScanStart ==
    /\ mainPc = "loop"
    /\ spawned = 0
    /\ wg = 0
    /\ matchChan = <<>>
    /\ chanClosed = FALSE
    /\ workerPc = [i \in 1..Len(files) |-> "idle"]
    /\ parser = [i \in 1..Len(files) |-> 0]
    /\ content = [i \in 1..Len(files) |-> ""]
    /\ closerPc = "idle"
    /\ allMatches = <<>>
    /\ ret = NoReturn
    /\ panicked = FALSE

ScanInit ==
    /\ parsers = Parsers
    /\ files \in SeqsUpTo(Paths, MaxFiles)
    /\ componentType \in RequestedTypes
    /\ ScanStart

\* one iteration of `for _, filePath := range files`: wg.Add(1); go func(path)
Spawn ==
    /\ ~panicked
    /\ mainPc = "loop"
    /\ spawned < Len(files)
    /\ wg' = wg + 1
    /\ spawned' = spawned + 1
    /\ workerPc' = [workerPc EXCEPT ![spawned + 1] = "start"]
    /\ UNCHANGED <<queryVars, parseVars, appVars, mappings>>
    /\ UNCHANGED <<parsers, parser, files, componentType, mainPc, matchChan, chanClosed,
                   content, closerPc, allMatches, ret, panicked>>

\* after the loop: go func() { wg.Wait(); close(matchChan) }()
SpawnCloser ==
    /\ ~panicked
    /\ mainPc = "loop"
    /\ spawned = Len(files)
    /\ closerPc' = "wait"
    /\ mainPc' = "collect"
    /\ UNCHANGED <<queryVars, parseVars, appVars, mappings>>
    /\ UNCHANGED <<parsers, parser, files, componentType, spawned, wg, matchChan,
                   chanClosed, workerPc, content, allMatches, ret, panicked>>

\* parser == nil: matchChan <- nil; return
WorkerNoParser(i) ==
    /\ ~panicked
    /\ workerPc[i] = "start"
    /\ SelectParser(files[i]) = 0
    /\ Send(<<>>)
    /\ workerPc' = [workerPc EXCEPT ![i] = "sent"]
    /\ UNCHANGED <<queryVars, parseVars, appVars, mappings>>
    /\ UNCHANGED <<parsers, parser, files, componentType, mainPc, spawned, wg, chanClosed,
                   content, closerPc, allMatches, ret>>

\* os.ReadFile(path) fails: matchChan <- nil; return
WorkerReadFail(i) ==
    /\ ~panicked
    /\ workerPc[i] = "start"
    /\ SelectParser(files[i]) # 0
    /\ parser' = [parser EXCEPT ![i] = SelectParser(files[i])]
    /\ files[i] \notin DOMAIN FileSystem
    /\ Send(<<>>)
    /\ workerPc' = [workerPc EXCEPT ![i] = "sent"]
    /\ UNCHANGED <<queryVars, parseVars, appVars, mappings>>
    /\ UNCHANGED <<parsers, files, componentType, mainPc, spawned, wg, chanClosed,
                   content, closerPc, allMatches, ret>>

\* os.ReadFile(path) succeeds
WorkerRead(i) ==
    /\ ~panicked
    /\ workerPc[i] = "start"
    /\ SelectParser(files[i]) # 0
    /\ parser' = [parser EXCEPT ![i] = SelectParser(files[i])]
    /\ files[i] \in DOMAIN FileSystem
    /\ content' = [content EXCEPT ![i] = FileSystem[files[i]]]
    /\ workerPc' = [workerPc EXCEPT ![i] = "read"]
    /\ UNCHANGED <<queryVars, parseVars, appVars, mappings>>
    /\ UNCHANGED <<parsers, files, componentType, mainPc, spawned, wg, matchChan,
                   chanClosed, closerPc, allMatches, ret, panicked>>

\* a registry that enters an empty mapping for a type it is asked about and
\* does not know
WorkerParseRegistering(i) ==
    /\ ~panicked
    /\ workerPc[i] = "read"
    /\ LET parsed == ParseTable[parsers[parser[i]], content[i], files[i]]
       IN  IF parsed.err # Nil
           THEN Send(<<>>)
           ELSE Send(filterByComponentType(mappings, parsed.matches, componentType))
    /\ workerPc' = [workerPc EXCEPT ![i] = "sent"]
    /\ mappings' = [k \in DOMAIN mappings \cup {ToLower(componentType)} |->
                        IF k \in DOMAIN mappings THEN mappings[k]
                        ELSE [Type |-> k,
                              Patterns |-> [native |-> <<>>, quasar |-> <<>>,
                                            material |-> <<>>]]]
    /\ UNCHANGED <<queryVars, parseVars, appVars>>
    /\ UNCHANGED <<parsers, parser, files, componentType, mainPc, spawned, wg, chanClosed,
                   content, closerPc, allMatches, ret>>

\* parser.Parse, then nil on an error, else the filtered matches, is sent
WorkerParse(i) ==
    /\ ~panicked
    /\ workerPc[i] = "read"
    /\ LET parsed == ParseTable[parsers[parser[i]], content[i], files[i]]
       IN  IF parsed.err # Nil
           THEN Send(<<>>)
           ELSE Send(filterByComponentType(mappings, parsed.matches, componentType))
    /\ workerPc' = [workerPc EXCEPT ![i] = "sent"]
    /\ UNCHANGED <<queryVars, parseVars, appVars, mappings>>
    /\ UNCHANGED <<parsers, parser, files, componentType, mainPc, spawned, wg, chanClosed,
                   content, closerPc, allMatches, ret>>

\* the deferred wg.Done()
WorkerDoneNoSignal(i) ==
    /\ ~panicked
    /\ workerPc[i] = "sent"
    /\ workerPc' = [workerPc EXCEPT ![i] = "done"]
    /\ UNCHANGED <<queryVars, parseVars, appVars, mappings>>
    /\ UNCHANGED <<parsers, parser, files, componentType, mainPc, spawned, wg, matchChan,
                   chanClosed, content, closerPc, allMatches, ret, panicked>>

WorkerDone(i) ==
    /\ ~panicked
    /\ workerPc[i] = "sent"
    /\ wg' = wg - 1
    /\ workerPc' = [workerPc EXCEPT ![i] = "done"]
    /\ UNCHANGED <<queryVars, parseVars, appVars, mappings>>
    /\ UNCHANGED <<parsers, parser, files, componentType, mainPc, spawned, matchChan,
                   chanClosed, content, closerPc, allMatches, ret, panicked>>

\* the closer goroutine without its wg.Wait()
CloserNoWait ==
    /\ ~panicked
    /\ closerPc = "wait"
    /\ closerPc' = "close"
    /\ UNCHANGED <<queryVars, parseVars, appVars, mappings>>
    /\ UNCHANGED <<parsers, parser, files, componentType, mainPc, spawned, wg, matchChan,
                   chanClosed, workerPc, content, allMatches, ret, panicked>>

\* wg.Wait() returns
CloserWait ==
    /\ ~panicked
    /\ closerPc = "wait"
    /\ wg = 0
    /\ closerPc' = "close"
    /\ UNCHANGED <<queryVars, parseVars, appVars, mappings>>
    /\ UNCHANGED <<parsers, parser, files, componentType, mainPc, spawned, wg, matchChan,
                   chanClosed, workerPc, content, allMatches, ret, panicked>>

\* close(matchChan)
CloserClose ==
    /\ ~panicked
    /\ closerPc = "close"
    /\ chanClosed' = TRUE
    /\ closerPc' = "done"
    /\ UNCHANGED <<queryVars, parseVars, appVars, mappings>>
    /\ UNCHANGED <<parsers, parser, files, componentType, mainPc, spawned, wg, matchChan,
                   workerPc, content, allMatches, ret, panicked>>

\* one iteration of `for matches := range matchChan`
CollectOverwrite ==
    /\ ~panicked
    /\ mainPc = "collect"
    /\ matchChan # <<>>
    /\ allMatches' = IF Head(matchChan) # <<>> THEN Head(matchChan) ELSE allMatches
    /\ matchChan' = Tail(matchChan)
    /\ UNCHANGED <<queryVars, parseVars, appVars, mappings>>
    /\ UNCHANGED <<parsers, parser, files, componentType, mainPc, spawned, wg, chanClosed,
                   workerPc, content, closerPc, ret, panicked>>

\* a and b merged element by element
RECURSIVE Riffle(_, _)
Riffle(a, b) ==
    IF a = <<>> THEN b
    ELSE IF b = <<>> THEN a
    ELSE <<Head(a), Head(b)>> \o Riffle(Tail(a), Tail(b))

\* a collector that merges each message into allMatches element by element
CollectRiffle ==
    /\ ~panicked
    /\ mainPc = "collect"
    /\ matchChan # <<>>
    /\ allMatches' = IF Head(matchChan) # <<>>
                     THEN Riffle(allMatches, Head(matchChan))
                     ELSE allMatches
    /\ matchChan' = Tail(matchChan)
    /\ UNCHANGED <<queryVars, parseVars, appVars, mappings>>
    /\ UNCHANGED <<parsers, parser, files, componentType, mainPc, spawned, wg, chanClosed,
                   workerPc, content, closerPc, ret, panicked>>

Collect ==
    /\ ~panicked
    /\ mainPc = "collect"
    /\ matchChan # <<>>
    /\ allMatches' = IF Head(matchChan) # <<>>
                     THEN allMatches \o Head(matchChan)
                     ELSE allMatches
    /\ matchChan' = Tail(matchChan)
    /\ UNCHANGED <<queryVars, parseVars, appVars, mappings>>
    /\ UNCHANGED <<parsers, parser, files, componentType, mainPc, spawned, wg, chanClosed,
                   workerPc, content, closerPc, ret, panicked>>

\* the range loop ends: the channel is closed and drained
CollectExit ==
    /\ ~panicked
    /\ mainPc = "collect"
    /\ matchChan = <<>>
    /\ chanClosed
    /\ mainPc' = "build"
    /\ UNCHANGED <<queryVars, parseVars, appVars, mappings>>
    /\ UNCHANGED <<parsers, parser, files, componentType, spawned, wg, matchChan,
                   chanClosed, workerPc, content, closerPc, allMatches, ret, panicked>>

BuildReturnsReadError ==
    /\ ~panicked
    /\ mainPc = "build"
    /\ ret' = IF \E i \in Workers :
                    SelectParser(files[i]) # 0 /\ files[i] \notin DOMAIN FileSystem
              THEN [NoReturn EXCEPT !.err = "read failed"]
              ELSE [result |-> [Matches |-> allMatches,
                                TotalCount |-> Len(allMatches),
                                ComponentType |-> componentType,
                                ScannedFiles |-> Len(files)],
                    resultIsNil |-> FALSE,
                    err |-> Nil]
    /\ mainPc' = "done"
    /\ UNCHANGED <<queryVars, parseVars, appVars, mappings>>
    /\ UNCHANGED <<parsers, parser, files, componentType, spawned, wg, matchChan,
                   chanClosed, workerPc, content, closerPc, allMatches, panicked>>

BuildCountsParsed ==
    /\ ~panicked
    /\ mainPc = "build"
    /\ ret' = [result |-> [Matches |-> allMatches,
                           TotalCount |-> Len(allMatches),
                           ComponentType |-> componentType,
                           ScannedFiles |-> Cardinality({i \in Workers : content[i] # ""})],
               resultIsNil |-> FALSE,
               err |-> Nil]
    /\ mainPc' = "done"
    /\ UNCHANGED <<queryVars, parseVars, appVars, mappings>>
    /\ UNCHANGED <<parsers, parser, files, componentType, spawned, wg, matchChan,
                   chanClosed, workerPc, content, closerPc, allMatches, panicked>>

\* the ScanResult (ScanTimeMs, a wall-clock reading, is left out) and `return
\* result, nil`
Build ==
    /\ ~panicked
    /\ mainPc = "build"
    /\ ret' = [result |-> [Matches |-> allMatches,
                           TotalCount |-> Len(allMatches),
                           ComponentType |-> componentType,
                           ScannedFiles |-> Len(files)],
               resultIsNil |-> FALSE,
               err |-> Nil]
    /\ mainPc' = "done"
    /\ UNCHANGED <<queryVars, parseVars, appVars, mappings>>
    /\ UNCHANGED <<parsers, parser, files, componentType, spawned, wg, matchChan,
                   chanClosed, workerPc, content, closerPc, allMatches, panicked>>

(***************************************************************************)
(* internal/discovery                                                      *)
(***************************************************************************)
\* the directory tree below the working directory, in the order
\* filepath.Walk visits it (names sorted, a directory before its content)
Tree ==
    <<[path |-> "node_modules", isDir |-> TRUE],
      [path |-> "node_modules/lib.vue", isDir |-> FALSE],
      [path |-> "src", isDir |-> TRUE],
      [path |-> "src/App.test.tsx", isDir |-> FALSE],
      [path |-> "src/App.vue", isDir |-> FALSE],
      [path |-> "src/Btn.spec.jsx", isDir |-> FALSE],
      [path |-> "src/README", isDir |-> FALSE],
      [path |-> "src/components", isDir |-> TRUE],
      [path |-> "src/components/Form.tsx", isDir |-> FALSE],
      [path |-> "src/components/latest.vue", isDir |-> FALSE],
      [path |-> "src/components-old", isDir |-> TRUE],
      [path |-> "src/components-old/Old.vue", isDir |-> FALSE],
      [path |-> "src/util.js", isDir |-> FALSE],
      [path |-> "src/widgets.vue", isDir |-> TRUE],
      [path |-> "src/widgets.vue/In.jsx", isDir |-> FALSE],
      [path |-> "testbed", isDir |-> TRUE],
      [path |-> "testbed/Form.tsx", isDir |-> FALSE],
      [path |-> "testbed/latest.vue", isDir |-> FALSE]>>

TreeFiles == {Tree[k].path : k \in {j \in DOMAIN Tree : ~Tree[j].isDir}}
TreeDirs == {"."} \cup {Tree[k].path : k \in {j \in DOMAIN Tree : Tree[j].isDir}}

\* filepath.Clean for the paths used here: a leading "./" and a trailing "/"
\* are dropped, the empty path is "."
RECURSIVE Clean(_)
Clean(path) ==
    IF path = "" THEN "."
    ELSE IF HasPrefix(path, "./") THEN Clean(SubSeq(path, 3, Len(path)))
    ELSE IF Len(path) > 1 /\ HasSuffix(path, "/")
    THEN Clean(SubSeq(path, 1, Len(path) - 1))
    ELSE path

\* filepath.Rel(basepath, targpath) for a target at or below the base
Rel(basepath, targpath) ==
    LET base == Clean(basepath)
        targ == Clean(targpath)
    IN  IF base = "." THEN targ
        ELSE IF targ = base THEN "."
        ELSE SubSeq(targ, Len(base) + 2, Len(targ))

\* filepath.Ext: the suffix of path from the last dot of its last element
RECURSIVE ExtFrom(_, _)
ExtFrom(path, i) ==
    IF i < 1 \/ CharAt(path, i) = "/" THEN ""
    ELSE IF CharAt(path, i) = "." THEN SubSeq(path, i, Len(path))
    ELSE ExtFrom(path, i - 1)

Ext(path) == ExtFrom(path, Len(path))

\* the calls filepath.Walk(root, fn) makes when os.Lstat(root) succeeds: root
\* as it was given, then every entry below it under its cleaned, joined path
WalkList(root) ==
    LET base == Clean(root)
        Below(entry) == base = "." \/ HasPrefix(entry.path, base \o "/")
    IN  <<[path |-> root, isDir |-> base \in TreeDirs]>> \o SelectSeq(Tree, Below)

\* the paths whose parent directory may not be searched
DeniedPaths == {"locked/inner"}

\* os.Stat(path) and os.Lstat(path): "ok", or the kind of error
Stat(path) ==
    IF path = "" THEN "notexist"
    ELSE IF path \in DeniedPaths THEN "denied"
    ELSE IF Clean(path) \in TreeDirs \cup TreeFiles THEN "ok"
    ELSE "notexist"

\* os.Lstat(root) succeeds
Exists(root) == Stat(root) = "ok"

matchesPattern(filePath, pattern) ==
    \/ Contains(filePath, pattern)
    \/ \E part \in Range(Split(filePath, "/")) : part = pattern

ShouldExcludeFile(filePath, filter) ==
    \E pattern \in Range(filter.ExcludePatterns) : matchesPattern(filePath, pattern)

hasValidExtension(filePath, extensions) ==
    \/ Len(extensions) = 0
    \/ \E validExt \in Range(extensions) : Ext(filePath) = validExt

isInIncludedDirectory(filePath, rootDir, includeDirectories) ==
    \E relPath \in {Rel(rootDir, filePath)} :
        \E includeDir \in Range(includeDirectories) :
            \/ HasPrefix(relPath, includeDir \o "/")
            \/ relPath = includeDir

\* the function DiscoverFiles hands to filepath.Walk, for an entry that could
\* be read: the value of `files` after the call
walkFn(found, entry, rootDir, filter) ==
    IF entry.isDir THEN found
    ELSE IF ShouldExcludeFile(entry.path, filter) THEN found
    ELSE IF ~hasValidExtension(entry.path, filter.FileExtensions) THEN found
    ELSE IF /\ Len(filter.IncludeDirectories) > 0
            /\ ~isInIncludedDirectory(entry.path, rootDir, filter.IncludeDirectories)
    THEN found
    ELSE Append(found, entry.path)

RECURSIVE walkFrom(_, _, _, _, _)
walkFrom(entries, k, found, rootDir, filter) ==
    IF k > Len(entries) THEN found
    ELSE walkFrom(entries, k + 1, walkFn(found, entries[k], rootDir, filter),
                  rootDir, filter)

LstatError == "lstat: no such file or directory"

DiscoverFiles(rootDir, filter) ==
    IF ~Exists(rootDir)
    THEN [files |-> <<>>, err |-> LstatError]
    ELSE [files |-> walkFrom(WalkList(rootDir), 1, <<>>, rootDir, filter),
          err |-> Nil]

QueryIdle ==
    /\ queryName = ""
    /\ queryType = ""
    /\ queryPc = "idle"
    /\ queryResult = FALSE

ParseIdle ==
    /\ parseKind = Nil
    /\ parseContent = ""
    /\ parsePc = "idle"
    /\ templateMatches = <<>>
    /\ jsxMatches = <<>>
    /\ matches = <<>>
    /\ parseErr = Unreturned

SupportIdle ==
    /\ supportPath = ""
    /\ supportPc = "idle"
    /\ vueSupports = FALSE
    /\ reactSupports = FALSE

\* the zero CLIOptions
NoOptions == [ComponentType |-> "", Directory |-> "", Filter |-> <<>>, OutputFormat |-> ""]

ExecIdle ==
    /\ options = NoOptions
    /\ execPc = "idle"
    /\ execFiles = <<>>
    /\ execRet = NoReturn

ValidateIdle ==
    /\ validatePc = "idle"
    /\ validateErr = Unreturned

\* the zero FileFilter
NoFilter == [ExcludePatterns |-> <<>>, IncludeDirectories |-> <<>>, FileExtensions |-> <<>>]

DiscoverIdle ==
    /\ discRoot = ""
    /\ discFilter = NoFilter
    /\ discPos = 0
    /\ discFiles = <<>>
    /\ discErr = Unreturned
    /\ discPc = "idle"

(***************************************************************************)
(* OutputFormatter: FormatTerminal, FormatJSON, and the files and the      *)
(* standard output Write acts on                                           *)
(***************************************************************************)
DigitChar == <<"0", "1", "2", "3", "4", "5", "6", "7", "8", "9">>

\* the %d verb on a non-negative int
RECURSIVE Itoa(_)
Itoa(n) ==
    IF n < 10 THEN DigitChar[n + 1] ELSE Itoa(n \div 10) \o DigitChar[(n % 10) + 1]

\* strings.Repeat
RECURSIVE Repeat(_, _)
Repeat(s, count) == IF count = 0 THEN "" ELSE s \o Repeat(s, count - 1)

\* encoding/json's escape of one character of a string (HTML escaping is on
\* for Marshal and MarshalIndent)
jsonEscapeChar(c) ==
    CASE c = "\"" -> "\\\""
      [] c = "\\" -> "\\\\"
      [] c = "\n" -> "\\n"
      [] c = "\r" -> "\\r"
      [] c = "\t" -> "\\t"
      [] c = "<" -> "\\u003c"
      [] c = ">" -> "\\u003e"
      [] c = "&" -> "\\u0026"
      [] OTHER -> c

RECURSIVE jsonEscape(_)
jsonEscape(s) ==
    IF s = "" THEN "" ELSE jsonEscapeChar(CharAt(s, 1)) \o jsonEscape(Tail(s))

\* encoding/json's encoding of a Go string
jsonString(s) == "\"" \o jsonEscape(s) \o "\""

\* one ComponentMatch inside the "matches" array of MarshalIndent(result, "", "  ")
jsonMatch(match) ==
    "    {\n"
    \o "      \"filePath\": " \o jsonString(match.FilePath) \o ",\n"
    \o "      \"line\": " \o Itoa(match.Line) \o ",\n"
    \o "      \"componentName\": " \o jsonString(match.ComponentName) \o ",\n"
    \o "      \"componentType\": " \o jsonString(match.ComponentType) \o "\n"
    \o "    }"

RECURSIVE jsonMatchesFrom(_, _)
jsonMatchesFrom(ms, k) ==
    IF k > Len(ms) THEN ""
    ELSE jsonMatch(ms[k]) \o (IF k < Len(ms) THEN ",\n" ELSE "\n")
         \o jsonMatchesFrom(ms, k + 1)

\* the []ComponentMatch: null for a nil slice, [] for an empty one
jsonMatches(result) ==
    IF result.MatchesNil THEN "null"
    ELSE IF Len(result.Matches) = 0 THEN "[]"
    ELSE "[\n" \o jsonMatchesFrom(result.Matches, 1) \o "  ]"

\* FormatJSON: json.MarshalIndent(result, "", "  "), which cannot fail on a
\* ScanResult
FormatJSON(result) ==
    "{\n"
    \o "  \"matches\": " \o jsonMatches(result) \o ",\n"
    \o "  \"totalCount\": " \o Itoa(result.TotalCount) \o ",\n"
    \o "  \"scanTimeMs\": " \o Itoa(result.ScanTimeMs) \o ",\n"
    \o "  \"componentType\": " \o jsonString(result.ComponentType) \o ",\n"
    \o "  \"scannedFiles\": " \o Itoa(result.ScannedFiles) \o "\n"
    \o "}"

RECURSIVE terminalMatchesFrom(_, _)
terminalMatchesFrom(ms, k) ==
    IF k > Len(ms) THEN ""
    ELSE "  " \o ms[k].FilePath \o " (line " \o Itoa(ms[k].Line) \o "): "
         \o ms[k].ComponentName \o "\n" \o terminalMatchesFrom(ms, k + 1)

FormatTerminal(result) ==
    "\nComponent Finder Results - " \o result.ComponentType \o "\n"
    \o Repeat("=", 50) \o "\n\n"
    \o (IF Len(result.Matches) = 0 THEN "No components found.\n"
        ELSE "Found components in:\n\n" \o terminalMatchesFrom(result.Matches, 1))
    \o "\n" \o Repeat("-", 50) \o "\n"
    \o "Total components found: " \o Itoa(result.TotalCount) \o "\n"
    \o "Files scanned: " \o Itoa(result.ScannedFiles) \o "\n"
    \o "Scan time: " \o Itoa(result.ScanTimeMs) \o "ms\n"

\* the files of the working directory that Write can create or replace, and
\* the content of a file that does not exist
DiskPaths == {"ui-elf-results.json", "out.json", "reports/out.json"}
NoFile == "(no file)"

\* paths os.WriteFile cannot open: the directory is missing
UnwritablePaths == {"missing/out.json"}

\* os.WriteFile(name, data, 0644) on the files d: [disk, err]
WriteFile(d, name, data) ==
    IF name \in DiskPaths /\ name \notin UnwritablePaths
    THEN [disk |-> [d EXCEPT ![name] = data], err |-> Nil]
    ELSE [disk |-> d, err |-> "open " \o name \o ": no such file or directory"]

\* `if outputPath == "" { outputPath = "ui-elf-results.json" }` with the
\* assignment left out
outputPathAsGiven(outputPath) == outputPath

\* `if outputPath == "" { outputPath = "ui-elf-results.json" }`
outputPathOrDefault(outputPath) ==
    IF outputPath = "" THEN "ui-elf-results.json" ELSE outputPath

\* a ScanResult no caller has built yet; MatchesNil tells a nil Matches from
\* an empty one
NoResult ==
    [Matches |-> <<>>, MatchesNil |-> TRUE, TotalCount |-> 0, ScanTimeMs |-> 0,
     ComponentType |-> "", ScannedFiles |-> 0]

WriteIdle ==
    /\ writeResult = NoResult
    /\ writeFormat = ""
    /\ writePath = ""
    /\ disk = [p \in DiskPaths |-> NoFile]
    /\ stdout = ""
    /\ writeErr = Unreturned
    /\ writePc = "idle"

FilterIdle ==
    /\ filterMatches = <<>>
    /\ filterType = ""
    /\ filterIdx = 0
    /\ filtered = <<>>
    /\ filterPc = "idle"

\* the flag values before cobra has parsed a command line
NoFlags == [componentType |-> "", directory |-> "", filter |-> <<>>, output |-> ""]

RunIdle ==
    /\ flags = NoFlags
    /\ runPc = "idle"
    /\ runErr = Unreturned

AppIdle ==
    /\ SupportIdle /\ ExecIdle /\ ValidateIdle /\ DiscoverIdle /\ WriteIdle /\ FilterIdle
    /\ RunIdle

Init ==
    /\ AppIdle
    /\ mappings = NewComponentMappingRegistry
    /\ ScanInit
    /\ QueryIdle
    /\ ParseIdle

Next ==
    \/ Spawn
    \/ SpawnCloser
    \/ \E i \in Workers : WorkerNoParser(i)
    \/ \E i \in Workers : WorkerReadFail(i)
    \/ \E i \in Workers : WorkerRead(i)
    \/ \E i \in Workers : WorkerParse(i)
    \/ \E i \in Workers : WorkerDone(i)
    \/ CloserWait
    \/ CloserClose
    \/ Collect
    \/ CollectExit
    \/ Build

Spec == Init /\ [][Next]_vars

(***************************************************************************)
(* A caller of MatchesComponentType                                        *)
(***************************************************************************)
QueryNames ==
    {"form", "FORM", "q-form", "Q-FORM", "QForm", "qform", "v-form", "VForm",
     "Form", "MuiForm", "muiform", "q-form-extended", "xform",
     "button", "BUTTON", "q-btn", "QBtn", "v-btn", "VBtn", "Button", "MuiButton",
     "dialog", "q-dialog", "QDialog", "v-dialog", "VDialog", "Dialog", "MuiDialog",
     "Widget", "widget", "OtherWidget", "custom", "Custom",
     "MyCustomComponent", "mycustomcomponent", "OtherComponent", ""}

QueryTypes ==
    {"form", "Form", "FORM", "button", "BUTTON", "dialog", "Dialog",
     "Widget", "custom", "MyCustomComponent", "q-form", "QBtn", "forms", ""}

QueryInit ==
    /\ queryName \in QueryNames
    /\ queryType \in QueryTypes
    /\ queryPc = "call"
    /\ queryResult = FALSE

Query ==
    /\ queryPc = "call"
    /\ queryResult' = MatchesComponentType(mappings, queryName, queryType)
    /\ queryPc' = "returned"
    /\ UNCHANGED <<scanVars, parseVars, appVars, mappings, queryName, queryType>>

ScanIdle ==
    /\ parsers = <<>>
    /\ parser = <<>>
    /\ files = <<>>
    /\ componentType = ""
    /\ mainPc = "idle"
    /\ spawned = 0
    /\ wg = 0
    /\ matchChan = <<>>
    /\ chanClosed = FALSE
    /\ workerPc = <<>>
    /\ content = <<>>
    /\ closerPc = "idle"
    /\ allMatches = <<>>
    /\ ret = NoReturn
    /\ panicked = FALSE

InitRegistry ==
    /\ AppIdle
    /\ mappings = NewComponentMappingRegistry
    /\ ScanIdle
    /\ QueryInit
    /\ ParseIdle

NextRegistry == Query

SpecRegistry == InitRegistry /\ [][NextRegistry]_vars

(***************************************************************************)
(* A caller of VueParser.Parse or ReactParser.Parse                        *)
(***************************************************************************)
\* pieces of file text: two component tags, a hyphenated tag, a native
\* element and a line break
BodyFragments == {"<Foo>", "<Bar />", "<q-btn>", "<div>", "\n"}

RECURSIVE Join(_)
Join(seq) == IF seq = <<>> THEN "" ELSE Head(seq) \o Join(Tail(seq))

\* the shapes of a .vue file around a body b
VueLayouts == 1..10
VueLayout(k, b) ==
    CASE k = 1 -> "<template>" \o b \o "</template>"
      [] k = 2 -> "<template>\n" \o b \o "\n</template>\n<script>\n" \o b
                    \o "\n</script>"
      [] k = 3 -> "<template>" \o b \o "</template><script>" \o b \o "</script>"
      [] k = 4 -> "<script setup>" \o b \o "</script>\n<template>" \o b
                    \o "</template>"
      [] k = 5 -> "<template>\n<script>" \o b \o "</script></template>"
      [] k = 6 -> b
      [] k = 7 -> "\n<template\nfunctional>" \o b \o "</template>\n<script\nsetup>"
                    \o b \o "</script>"
      [] k = 8 -> "<template>" \o b \o "\n<script>" \o b \o "</script>"
      [] k = 9 -> "<template>" \o b \o "</template>\n<script>" \o b
      [] k = 10 -> "<template><template #x>" \o b
                    \o "</template>\n<Foo></template>\n<script>" \o b
                    \o "</script>\n<script>\n<Foo></script>"

parsePath == "f"

ParseInit ==
    /\ parseKind \in {"vue", "react"}
    /\ \E body \in SeqsUpTo(BodyFragments, MaxFragments) :
          IF parseKind = "react"
          THEN parseContent = Join(body)
          ELSE \E k \in VueLayouts : parseContent = VueLayout(k, Join(body))
    /\ parsePc = "start"
    /\ templateMatches = <<>>
    /\ jsxMatches = <<>>
    /\ matches = <<>>
    /\ parseErr = Unreturned

\* VueParser.Parse, the template pass
VueTemplateStep ==
    /\ parseKind = "vue"
    /\ parsePc = "start"
    /\ templateMatches' = VueTemplatePass(parseContent, parsePath)
    /\ matches' = matches \o templateMatches'
    /\ parsePc' = "script"
    /\ UNCHANGED <<scanVars, queryVars, appVars, mappings, parseKind, parseContent, jsxMatches,
                   parseErr>>

\* a script pass whose matches are put in front of those of the template
VueScriptStepPrepend ==
    /\ parseKind = "vue"
    /\ parsePc = "script"
    /\ jsxMatches' = VueScriptPass(parseContent, parsePath)
    /\ matches' = jsxMatches' \o matches
    /\ parseErr' = Nil
    /\ parsePc' = "returned"
    /\ UNCHANGED <<scanVars, queryVars, appVars, mappings, parseKind, parseContent,
                   templateMatches>>

\* VueParser.Parse, the script pass and the return
VueScriptStep ==
    /\ parseKind = "vue"
    /\ parsePc = "script"
    /\ jsxMatches' = VueScriptPass(parseContent, parsePath)
    /\ matches' = matches \o jsxMatches'
    /\ parseErr' = Nil
    /\ parsePc' = "returned"
    /\ UNCHANGED <<scanVars, queryVars, appVars, mappings, parseKind, parseContent,
                   templateMatches>>

\* ReactParser.Parse
ReactParseStep ==
    /\ parseKind = "react"
    /\ parsePc = "start"
    /\ matches' = ReactParse(parseContent, parsePath).matches
    /\ parseErr' = ReactParse(parseContent, parsePath).err
    /\ parsePc' = "returned"
    /\ UNCHANGED <<scanVars, queryVars, appVars, mappings, parseKind, parseContent,
                   templateMatches, jsxMatches>>

InitParse ==
    /\ AppIdle
    /\ mappings = NewComponentMappingRegistry
    /\ ScanIdle
    /\ QueryIdle
    /\ ParseInit

NextParse ==
    \/ VueTemplateStep
    \/ VueScriptStep
    \/ ReactParseStep

SpecParse == InitParse /\ [][NextParse]_vars

(***************************************************************************)
(* A caller of Parse on files made of single tags: every spelling of a tag *)
(* name, every way the tag goes on after the name.                         *)
(***************************************************************************)
\* what stands between "<" and the rest of a tag: the denylist names, other
\* spellings of them, component names, and what is not a component name
TagNames ==
    htmlTags \cup
    {"Div", "DIV", "diV", "Form", "Button", "Dialog", "Span",
     "q-btn", "my-comp", "Foo", "Foo1", "MyComp", "A", "x", "custom",
     "Foo.Bar", "Foo-bar", "foo.bar", "", "/Foo", "/div", "1a"}

\* what follows the name: the tag closed, self-closed, with an attribute, cut
\* by the end of the line, with attributes on the next line
TagForms == {">", "/>", " />", " class=\"a\">", "", "\n  id=\"x\">", "\t/>"}

\* what precedes the tag and what follows it on its line
TagPrefixes == {"", "x\n"}
TagCompanions == {"", "<Div>", "<form>"}

TagsInit ==
    /\ parseKind \in {"vue", "react"}
    /\ \E name \in TagNames, form \in TagForms, prefix \in TagPrefixes,
          companion \in TagCompanions :
          LET text == prefix \o "<" \o name \o form \o companion
          IN  IF parseKind = "react"
              THEN parseContent = text
              ELSE \/ parseContent = "<template>" \o text \o "\n</template>"
                   \/ parseContent = "<template>" \o text \o "\n</template>\n<script>\n"
                                        \o text \o "\n</script>"
    /\ parsePc = "start"
    /\ templateMatches = <<>>
    /\ jsxMatches = <<>>
    /\ matches = <<>>
    /\ parseErr = Unreturned

InitTags ==
    /\ AppIdle
    /\ mappings = NewComponentMappingRegistry
    /\ ScanIdle
    /\ QueryIdle
    /\ TagsInit

NextTags ==
    \/ VueTemplateStep
    \/ VueScriptStep
    \/ ReactParseStep

SpecTags == InitTags /\ [][NextTags]_vars

(***************************************************************************)
(* Scan on a scanner built with other parser lists                         *)
(***************************************************************************)
\* values of s.parsers: the list of executeScan, lists in which a parser
\* comes twice, a list without the React parser and the nil list
ParserLists ==
    {<<"vue", "react">>, <<"react", "vue", "react">>, <<"vue", "vue">>, <<>>}

ScanInitLists ==
    /\ parsers \in ParserLists
    /\ files \in SeqsUpTo(Paths, MaxFiles)
    /\ componentType = "form"
    /\ ScanStart

InitSelect ==
    /\ AppIdle
    /\ mappings = NewComponentMappingRegistry
    /\ ScanInitLists
    /\ QueryIdle
    /\ ParseIdle

SpecSelect == InitSelect /\ [][Next]_vars

(***************************************************************************)
(* A caller of the two SupportsFile methods                                *)
(***************************************************************************)
SupportStems == {"", "a", "src/App", "x.vue", "y.tsx.d"}
SupportEndings ==
    {".vue", ".VUE", ".Vue", ".vuE", ".jsx", ".JSX", ".Jsx", ".tsx", ".TSX", ".tSx",
     ".ts", ".js", ".vuex", ".vue.bak", ".tsx~", "vue", "jsx", "", ".vue/", ".txt"}

SupportInit ==
    /\ \E stem \in SupportStems, ending \in SupportEndings :
          supportPath = stem \o ending
    /\ supportPc = "vue"
    /\ vueSupports = FALSE
    /\ reactSupports = FALSE

VueSupportsStep ==
    /\ supportPc = "vue"
    /\ vueSupports' = VueSupportsFile(supportPath)
    /\ supportPc' = "react"
    /\ UNCHANGED <<scanVars, queryVars, parseVars, execVars, validateVars, discVars,
                   writeVars, filterVars, runVars, mappings, supportPath, reactSupports>>

ReactSupportsStep ==
    /\ supportPc = "react"
    /\ reactSupports' = ReactSupportsFile(supportPath)
    /\ supportPc' = "returned"
    /\ UNCHANGED <<scanVars, queryVars, parseVars, execVars, validateVars, discVars,
                   writeVars, filterVars, runVars, mappings, supportPath, vueSupports>>

InitSupport ==
    /\ mappings = NewComponentMappingRegistry
    /\ ScanIdle
    /\ QueryIdle
    /\ ParseIdle
    /\ ExecIdle
    /\ ValidateIdle
    /\ DiscoverIdle
    /\ SupportInit
    /\ WriteIdle
    /\ FilterIdle
    /\ RunIdle

NextSupport ==
    \/ VueSupportsStep
    \/ ReactSupportsStep

SpecSupport == InitSupport /\ [][NextSupport]_vars

(***************************************************************************)
(* internal/cli: Controller.executeScan, and a direct caller of Scan       *)
(***************************************************************************)
\* the FileFilter executeScan builds
ExecFilter(opts) ==
    [ExcludePatterns |-> <<"node_modules", "test", "tests", "__tests__", ".test.", ".spec.">>,
     IncludeDirectories |-> opts.Filter,
     FileExtensions |-> <<".vue", ".jsx", ".tsx">>]

ExecDirectories == {".", "src", "./src", "src/components", "node_modules", "missing"}
ExecFilters == {<<>>, <<"src/components">>, <<"components">>, <<"docs">>}

ExecInit ==
    /\ options \in [ComponentType : {"form", "button"},
                     Directory : ExecDirectories,
                     Filter : ExecFilters,
                     OutputFormat : {"terminal"}]
    /\ execPc = "discover"
    /\ execFiles = <<>>
    /\ execRet = NoReturn

\* Scan called on its own, with at most one file
ScanInitDirect ==
    /\ parsers = Parsers
    /\ files \in SeqsUpTo(Paths, 1)
    /\ componentType \in RequestedTypes
    /\ ScanStart

\* discoveryService.DiscoverFiles(options.Directory, filter) and its error check
ExecDiscover ==
    /\ execPc = "discover"
    /\ LET d == DiscoverFiles(options.Directory, ExecFilter(options))
       IN  IF d.err # Nil
           THEN /\ execRet' = [NoReturn EXCEPT
                                  !.err = "failed to discover files: " \o d.err]
                /\ execPc' = "done"
                /\ UNCHANGED execFiles
           ELSE /\ execFiles' = d.files
                /\ execPc' = "check"
                /\ UNCHANGED execRet
    /\ UNCHANGED <<scanVars, queryVars, parseVars, supportVars, validateVars, discVars,
                   writeVars, filterVars, runVars, mappings, options>>

\* an error in place of the zero result
ExecNoFilesAsError ==
    /\ execPc = "check"
    /\ Len(execFiles) = 0
    /\ execRet' = [NoReturn EXCEPT !.err = "no files found"]
    /\ execPc' = "done"
    /\ UNCHANGED <<scanVars, queryVars, parseVars, supportVars, validateVars, discVars,
                   writeVars, filterVars, runVars, mappings, options,
                   execFiles>>

\* len(files) == 0: the zero ScanResult (ScanTimeMs is left out)
ExecNoFiles ==
    /\ execPc = "check"
    /\ Len(execFiles) = 0
    /\ execRet' = [result |-> [Matches |-> <<>>,
                               TotalCount |-> 0,
                               ComponentType |-> options.ComponentType,
                               ScannedFiles |-> 0],
                   resultIsNil |-> FALSE,
                   err |-> Nil]
    /\ execPc' = "done"
    /\ UNCHANGED <<scanVars, queryVars, parseVars, supportVars, validateVars, discVars,
                   writeVars, filterVars, runVars, mappings, options,
                   execFiles>>

\* the registry, the parsers and the scanner are built and
\* componentScanner.Scan(files, options.ComponentType) is entered
ExecScan ==
    /\ execPc = "check"
    /\ Len(execFiles) > 0
    /\ mappings' = NewComponentMappingRegistry
    /\ parsers' = Parsers
    /\ files' = execFiles
    /\ componentType' = options.ComponentType
    /\ mainPc' = "loop"
    /\ spawned' = 0
    /\ wg' = 0
    /\ matchChan' = <<>>
    /\ chanClosed' = FALSE
    /\ workerPc' = [i \in 1..Len(execFiles) |-> "idle"]
    /\ parser' = [i \in 1..Len(execFiles) |-> 0]
    /\ content' = [i \in 1..Len(execFiles) |-> ""]
    /\ closerPc' = "idle"
    /\ allMatches' = <<>>
    /\ ret' = NoReturn
    /\ panicked' = FALSE
    /\ execPc' = "scan"
    /\ UNCHANGED <<queryVars, parseVars, supportVars, validateVars, discVars, writeVars,
                   filterVars, runVars,
                   options,
                   execFiles, execRet>>

\* Scan has returned: its error is wrapped, or its result is returned
ExecReturn ==
    /\ execPc = "scan"
    /\ mainPc = "done"
    /\ execRet' = IF ret.err # Nil
                  THEN [NoReturn EXCEPT !.err = "scan execution failed: " \o ret.err]
                  ELSE ret
    /\ execPc' = "done"
    /\ UNCHANGED <<scanVars, queryVars, parseVars, supportVars, validateVars, discVars,
                   writeVars, filterVars, runVars, mappings, options,
                   execFiles>>

InitExec ==
    /\ mappings = NewComponentMappingRegistry
    /\ QueryIdle
    /\ ParseIdle
    /\ SupportIdle
    /\ ValidateIdle
    /\ DiscoverIdle
    /\ \/ ExecInit /\ ScanIdle
       \/ ExecIdle /\ ScanInitDirect
    /\ WriteIdle
    /\ FilterIdle
    /\ RunIdle

NextExec ==
    \/ ExecDiscover
    \/ ExecNoFiles
    \/ ExecScan
    \/ ExecReturn
    \/ Next

SpecExec == InitExec /\ [][NextExec]_vars

(***************************************************************************)
(* internal/cli: Controller.validateOptions                                *)
(***************************************************************************)
\* the output-format check before the component-type check
validateOptionsOutputFirst(opts) ==
    IF opts.OutputFormat \notin {"terminal", "json", "both"}
    THEN "invalid output format '" \o opts.OutputFormat
            \o "': must be one of: terminal, json, both"
    ELSE IF opts.ComponentType \notin {"form", "button", "dialog", "custom"}
    THEN "invalid component type '" \o opts.ComponentType
            \o "': must be one of: form, button, dialog, custom"
    ELSE IF Stat(opts.Directory) = "notexist"
    THEN "directory not found: " \o opts.Directory
    ELSE Nil

validateOptions(opts) ==
    LET validTypes == {"form", "button", "dialog", "custom"}
        validOutputs == {"terminal", "json", "both"}
    IN  IF opts.ComponentType \notin validTypes
        THEN "invalid component type '" \o opts.ComponentType
                \o "': must be one of: form, button, dialog, custom"
        ELSE IF opts.OutputFormat \notin validOutputs
        THEN "invalid output format '" \o opts.OutputFormat
                \o "': must be one of: terminal, json, both"
        ELSE IF Stat(opts.Directory) = "notexist"
        THEN "directory not found: " \o opts.Directory
        ELSE Nil

ValidateTypes ==
    {"form", "button", "dialog", "custom", "Form", "BUTTON", "Custom", "forms",
     "q-form", "Widget", ""}
ValidateOutputs == {"terminal", "json", "both", "JSON", "Terminal", "xml", "json,both", ""}
ValidateDirectories == {".", "src", "./src", "src/App.vue", "missing", "locked/inner", ""}

ValidateInit ==
    /\ options \in [ComponentType : ValidateTypes,
                     Directory : ValidateDirectories,
                     Filter : {<<>>},
                     OutputFormat : ValidateOutputs]
    /\ execPc = "idle"
    /\ execFiles = <<>>
    /\ execRet = NoReturn
    /\ validatePc = "call"
    /\ validateErr = Unreturned

Validate ==
    /\ validatePc = "call"
    /\ validateErr' = validateOptions(options)
    /\ validatePc' = "returned"
    /\ UNCHANGED <<scanVars, queryVars, parseVars, supportVars, execVars, discVars,
                   writeVars, filterVars, runVars, mappings>>

InitValidate ==
    /\ mappings = NewComponentMappingRegistry
    /\ ScanIdle
    /\ QueryIdle
    /\ ParseIdle
    /\ SupportIdle
    /\ DiscoverIdle
    /\ ValidateInit
    /\ WriteIdle
    /\ FilterIdle
    /\ RunIdle

NextValidate == Validate

SpecValidate == InitValidate /\ [][NextValidate]_vars

(***************************************************************************)
(* A caller of FileDiscoveryService.DiscoverFiles                          *)
(***************************************************************************)
DiscoverRoots ==
    {".", "src", "./src", "src/", "src/components", "src/App.vue", "testbed", "missing"}
ExcludeLists ==
    {<<>>, <<".test.", ".spec.">>,
     <<"node_modules", "test", "tests", "__tests__", ".test.", ".spec.">>}
ExtensionLists == {<<>>, <<".vue">>, <<".vue", ".jsx", ".tsx">>}
IncludeLists ==
    {<<>>, <<"src">>, <<"src/components">>, <<"components">>,
     <<"src/components", "node_modules">>, <<"src/components/">>,
     <<"./src/components">>}

DiscoverInit ==
    /\ discRoot \in DiscoverRoots
    /\ discFilter \in [ExcludePatterns : ExcludeLists,
                        IncludeDirectories : IncludeLists,
                        FileExtensions : ExtensionLists]
    /\ discPos = 0
    /\ discFiles = <<>>
    /\ discErr = Unreturned
    /\ discPc = "walk"

\* os.Lstat(rootDir) fails: the walk function is called with the error and
\* returns it, and DiscoverFiles returns files, err
WalkFail ==
    /\ discPc = "walk"
    /\ ~Exists(discRoot)
    /\ discErr' = LstatError
    /\ discPc' = "returned"
    /\ UNCHANGED <<scanVars, queryVars, parseVars, supportVars, execVars, validateVars,
                   writeVars, filterVars, runVars, mappings, discRoot, discFilter, discPos, discFiles>>

\* the walk function is called for the next entry
WalkStep ==
    /\ discPc = "walk"
    /\ Exists(discRoot)
    /\ discPos < Len(WalkList(discRoot))
    /\ discFiles' = walkFn(discFiles, WalkList(discRoot)[discPos + 1], discRoot, discFilter)
    /\ discPos' = discPos + 1
    /\ UNCHANGED <<scanVars, queryVars, parseVars, supportVars, execVars, validateVars,
                   writeVars, filterVars, runVars, mappings, discRoot, discFilter, discErr, discPc>>

\* filepath.Walk is through: return files, err
WalkReturn ==
    /\ discPc = "walk"
    /\ Exists(discRoot)
    /\ discPos = Len(WalkList(discRoot))
    /\ discErr' = Nil
    /\ discPc' = "returned"
    /\ UNCHANGED <<scanVars, queryVars, parseVars, supportVars, execVars, validateVars,
                   writeVars, filterVars, runVars, mappings, discRoot, discFilter, discPos, discFiles>>

InitDiscover ==
    /\ mappings = NewComponentMappingRegistry
    /\ ScanIdle
    /\ QueryIdle
    /\ ParseIdle
    /\ SupportIdle
    /\ ExecIdle
    /\ ValidateIdle
    /\ DiscoverInit
    /\ WriteIdle
    /\ FilterIdle
    /\ RunIdle

NextDiscover ==
    \/ WalkFail
    \/ WalkStep
    \/ WalkReturn

SpecDiscover == InitDiscover /\ [][NextDiscover]_vars

(***************************************************************************)
(* A caller of OutputFormatter.Write                                       *)
(***************************************************************************)
WriteResults ==
    { [Matches |-> << [FilePath |-> "test.vue", Line |-> 5,
                       ComponentName |-> "q-dialog", ComponentType |-> "dialog"] >>,
       MatchesNil |-> FALSE, TotalCount |-> 1, ScanTimeMs |-> 50,
       ComponentType |-> "dialog", ScannedFiles |-> 10],
      [Matches |-> << [FilePath |-> "src/a&b/Form.tsx", Line |-> 12,
                       ComponentName |-> "Form", ComponentType |-> "form"],
                      [FilePath |-> "src/say \"hi\".vue", Line |-> 120,
                       ComponentName |-> "q-form", ComponentType |-> "form"] >>,
       MatchesNil |-> FALSE, TotalCount |-> 2, ScanTimeMs |-> 7,
       ComponentType |-> "form", ScannedFiles |-> 3],
      [Matches |-> <<>>, MatchesNil |-> TRUE, TotalCount |-> 0, ScanTimeMs |-> 1,
       ComponentType |-> "button", ScannedFiles |-> 2],
      [Matches |-> <<>>, MatchesNil |-> FALSE, TotalCount |-> 0, ScanTimeMs |-> 0,
       ComponentType |-> "form", ScannedFiles |-> 0] }

WriteFormats ==
    {"terminal", "json", "both", "JSON", "Terminal", "json ", "xml", "invalid", "", "all"}

WritePaths == {"", "out.json", "reports/out.json", "ui-elf-results.json", "missing/out.json"}

\* the working directory before the call: empty, or holding the results of
\* an earlier run
InitialDisks ==
    { [p \in DiskPaths |-> NoFile],
      [p \in DiskPaths |-> IF p = "reports/out.json" THEN NoFile ELSE "{}"] }

WriteInit ==
    /\ writeResult \in WriteResults
    /\ writeFormat \in WriteFormats
    /\ writePath \in WritePaths
    /\ disk \in InitialDisks
    /\ stdout = ""
    /\ writeErr = Unreturned
    /\ writePc = "called"

\* case "terminal"
WriteTerminal ==
    /\ writePc = "called"
    /\ writeFormat = "terminal"
    /\ stdout' = stdout \o FormatTerminal(writeResult)
    /\ writeErr' = Nil
    /\ writePc' = "returned"
    /\ UNCHANGED <<scanVars, queryVars, parseVars, supportVars, execVars, validateVars,
                   discVars, filterVars, runVars, mappings,
                   writeResult, writeFormat, writePath, disk>>

\* case "json"
WriteJSON ==
    /\ writePc = "called"
    /\ writeFormat = "json"
    /\ LET jsonStr == FormatJSON(writeResult)
           outputPath == outputPathOrDefault(writePath)
           written == WriteFile(disk, outputPath, jsonStr)
       IN  IF written.err # Nil
           THEN /\ writeErr' = "failed to write JSON file: " \o written.err
                /\ UNCHANGED <<disk, stdout>>
           ELSE /\ disk' = written.disk
                /\ stdout' = stdout \o "Results written to " \o outputPath \o "\n"
                /\ writeErr' = Nil
    /\ writePc' = "returned"
    /\ UNCHANGED <<scanVars, queryVars, parseVars, supportVars, execVars, validateVars,
                   discVars, filterVars, runVars, mappings,
                   writeResult, writeFormat, writePath>>

\* case "both"
WriteBoth ==
    /\ writePc = "called"
    /\ writeFormat = "both"
    /\ LET printed == stdout \o FormatTerminal(writeResult)
           jsonStr == FormatJSON(writeResult)
           outputPath == outputPathOrDefault(writePath)
           written == WriteFile(disk, outputPath, jsonStr)
       IN  IF written.err # Nil
           THEN /\ writeErr' = "failed to write JSON file: " \o written.err
                /\ stdout' = printed
                /\ UNCHANGED disk
           ELSE /\ disk' = written.disk
                /\ stdout' = printed \o "\nResults also written to " \o outputPath \o "\n"
                /\ writeErr' = Nil
    /\ writePc' = "returned"
    /\ UNCHANGED <<scanVars, queryVars, parseVars, supportVars, execVars, validateVars,
                   discVars, filterVars, runVars, mappings,
                   writeResult, writeFormat, writePath>>

\* default
WriteUnsupported ==
    /\ writePc = "called"
    /\ writeFormat \notin {"terminal", "json", "both"}
    /\ writeErr' = "unsupported output format: " \o writeFormat
    /\ writePc' = "returned"
    /\ UNCHANGED <<scanVars, queryVars, parseVars, supportVars, execVars, validateVars,
                   discVars, filterVars, runVars, mappings,
                   writeResult, writeFormat, writePath, disk, stdout>>

InitWrite ==
    /\ mappings = NewComponentMappingRegistry
    /\ ScanIdle
    /\ QueryIdle
    /\ ParseIdle
    /\ SupportIdle
    /\ ExecIdle
    /\ ValidateIdle
    /\ DiscoverIdle
    /\ WriteInit
    /\ FilterIdle
    /\ RunIdle

NextWrite ==
    \/ WriteTerminal
    \/ WriteJSON
    \/ WriteBoth
    \/ WriteUnsupported

SpecWrite == InitWrite /\ [][NextWrite]_vars

(***************************************************************************)
(* A caller of ComponentScanner.filterByComponentType, the loop taken one  *)
(* iteration at a time                                                     *)
(***************************************************************************)
\* what the parsers return for the files of the file system and for a file
\* with the same name on three lines
FilterInputs ==
    {ParseTable["vue", FileSystem["a.vue"], "a.vue"].matches,
     ParseTable["vue", FileSystem["src/App.vue"], "src/App.vue"].matches,
     ParseTable["react", FileSystem["b.tsx"], "b.tsx"].matches,
     ParseTable["react", FileSystem["src/components/Form.tsx"],
                "src/components/Form.tsx"].matches,
     ReactParse("<Form>\n<Btn>\n<Form>\n<MuiForm>\n<Widget>", "x.tsx").matches,
     <<>>}

FilterTypes == RequestedTypes \cup {"FORM", "dialog"}

FilterInit ==
    /\ filterMatches \in FilterInputs
    /\ filterType \in FilterTypes
    /\ filterIdx = 0
    /\ filtered = <<>>
    /\ filterPc = "loop"

\* an iteration that sets the type in the element of the slice itself, as
\* `for i := range matches { match := &matches[i]; ... }` does
FilterIterInPlace ==
    /\ filterPc = "loop"
    /\ filterIdx < Len(filterMatches)
    /\ LET match == filterMatches[filterIdx + 1]
       IN  IF MatchesComponentType(mappings, match.ComponentName, filterType)
           THEN /\ filterMatches' = [filterMatches EXCEPT
                                        ![filterIdx + 1].ComponentType = filterType]
                /\ filtered' = Append(filtered, filterMatches'[filterIdx + 1])
           ELSE UNCHANGED <<filterMatches, filtered>>
    /\ filterIdx' = filterIdx + 1
    /\ UNCHANGED <<scanVars, queryVars, parseVars, supportVars, execVars, validateVars,
                   discVars, writeVars, runVars, mappings, filterType, filterPc>>

\* one iteration of `for _, match := range matches`: match is a copy of the
\* element, the assignment to match.ComponentType changes the copy, and the
\* copy is appended to filtered
FilterIter ==
    /\ filterPc = "loop"
    /\ filterIdx < Len(filterMatches)
    /\ LET match == filterMatches[filterIdx + 1]
       IN  IF MatchesComponentType(mappings, match.ComponentName, filterType)
           THEN filtered' = Append(filtered, [match EXCEPT !.ComponentType = filterType])
           ELSE UNCHANGED filtered
    /\ filterIdx' = filterIdx + 1
    /\ UNCHANGED <<scanVars, queryVars, parseVars, supportVars, execVars, validateVars,
                   discVars, writeVars, runVars, mappings, filterMatches, filterType, filterPc>>

\* the range is exhausted: return filtered
FilterReturn ==
    /\ filterPc = "loop"
    /\ filterIdx = Len(filterMatches)
    /\ filterPc' = "returned"
    /\ UNCHANGED <<scanVars, queryVars, parseVars, supportVars, execVars, validateVars,
                   discVars, writeVars, runVars, mappings, filterMatches, filterType, filterIdx,
                   filtered>>

InitFilter ==
    /\ mappings = NewComponentMappingRegistry
    /\ ScanIdle
    /\ QueryIdle
    /\ ParseIdle
    /\ SupportIdle
    /\ ExecIdle
    /\ ValidateIdle
    /\ DiscoverIdle
    /\ WriteIdle
    /\ FilterInit
    /\ RunIdle

NextFilter ==
    \/ FilterIter
    \/ FilterReturn

SpecFilter == InitFilter /\ [][NextFilter]_vars

(***************************************************************************)
(* internal/cli: Controller.run                                            *)
(***************************************************************************)
\* the flags setupCommand defines on the root command
DefinedFlags == {"component-type", "directory", "filter", "output"}

\* the error of cmd.Flags().GetString(name) and GetStringSlice(name): nil
\* for a flag that is defined with that type
getFlagErr(name) ==
    IF name \in DefinedFlags THEN Nil
    ELSE "flag accessed but not defined: " \o name

\* parseFlags: [options, err]
parseFlags(f) ==
    IF getFlagErr("component-type") # Nil
    THEN [options |-> NoOptions,
          err |-> "failed to parse component-type flag: " \o getFlagErr("component-type")]
    ELSE IF getFlagErr("directory") # Nil
    THEN [options |-> NoOptions,
          err |-> "failed to parse directory flag: " \o getFlagErr("directory")]
    ELSE IF getFlagErr("filter") # Nil
    THEN [options |-> NoOptions,
          err |-> "failed to parse filter flag: " \o getFlagErr("filter")]
    ELSE IF getFlagErr("output") # Nil
    THEN [options |-> NoOptions,
          err |-> "failed to parse output flag: " \o getFlagErr("output")]
    ELSE [options |-> [ComponentType |-> f.componentType, Directory |-> f.directory,
                       Filter |-> f.filter, OutputFormat |-> f.output],
          err |-> Nil]

RunTypes == {"form", "Form", "custom"}
RunDirectories == {"src", "src/components", "node_modules", "missing", "locked/inner"}
RunOutputs == {"terminal", "json", "both", "xml"}

\* the milliseconds time.Since(startTime) may give
ScanTimes == {0, 12}

RunInit ==
    /\ flags \in [componentType : RunTypes, directory : RunDirectories,
                   filter : {<<>>}, output : RunOutputs]
    /\ runPc = "parseFlags"
    /\ runErr = Unreturned
    /\ writeResult = NoResult
    /\ writeFormat = ""
    /\ writePath = ""
    /\ disk \in InitialDisks
    /\ stdout = ""
    /\ writeErr = Unreturned
    /\ writePc = "idle"

\* options, err := c.parseFlags(cmd) and its error check
RunParseFlags ==
    /\ runPc = "parseFlags"
    /\ LET parsed == parseFlags(flags)
       IN  IF parsed.err # Nil
           THEN /\ runErr' = parsed.err
                /\ runPc' = "done"
                /\ UNCHANGED options
           ELSE /\ options' = parsed.options
                /\ runPc' = "validate"
                /\ UNCHANGED runErr
    /\ UNCHANGED <<scanVars, queryVars, parseVars, supportVars, validateVars, discVars,
                   writeVars, filterVars, mappings, flags, execPc, execFiles, execRet>>

\* a run that goes on to the scan whatever validateOptions returns
RunValidateIgnored ==
    /\ runPc = "validate"
    /\ validateErr' = validateOptions(options)
    /\ validatePc' = "returned"
    /\ execPc' = "discover"
    /\ runPc' = "scan"
    /\ UNCHANGED runErr
    /\ UNCHANGED <<scanVars, queryVars, parseVars, supportVars, discVars, writeVars,
                   filterVars, mappings, flags, options, execFiles, execRet>>

\* c.validateOptions(options) and its error check; on nil executeScan is
\* entered
RunValidate ==
    /\ runPc = "validate"
    /\ validateErr' = validateOptions(options)
    /\ validatePc' = "returned"
    /\ IF validateErr' # Nil
       THEN /\ runErr' = validateErr'
            /\ runPc' = "done"
            /\ UNCHANGED execPc
       ELSE /\ execPc' = "discover"
            /\ runPc' = "scan"
            /\ UNCHANGED runErr
    /\ UNCHANGED <<scanVars, queryVars, parseVars, supportVars, discVars, writeVars,
                   filterVars, mappings, flags, options, execFiles, execRet>>

\* executeScan has returned: its error is wrapped and returned, or
\* displayOutput calls formatter.Write(result, options.OutputFormat, "")
RunScanReturned ==
    /\ runPc = "scan"
    /\ execPc = "done"
    /\ IF execRet.err # Nil
       THEN /\ runErr' = "scan failed: " \o execRet.err
            /\ runPc' = "done"
            /\ UNCHANGED <<writeResult, writeFormat, writePath, writePc>>
       ELSE /\ \E ms \in IF mainPc = "done" THEN ScanTimes ELSE {0} :
                writeResult' = [Matches |-> execRet.result.Matches,
                                MatchesNil |-> (mainPc = "done"
                                                  /\ execRet.result.Matches = <<>>),
                                TotalCount |-> execRet.result.TotalCount,
                                ScanTimeMs |-> ms,
                                ComponentType |-> execRet.result.ComponentType,
                                ScannedFiles |-> execRet.result.ScannedFiles]
            /\ writeFormat' = options.OutputFormat
            /\ writePath' = ""
            /\ writePc' = "called"
            /\ runPc' = "display"
            /\ UNCHANGED runErr
    /\ UNCHANGED <<scanVars, queryVars, parseVars, supportVars, execVars, validateVars,
                   discVars, filterVars, mappings, flags, disk, stdout, writeErr>>

\* Write has returned: displayOutput returns its error, run wraps it
RunDisplayReturned ==
    /\ runPc = "display"
    /\ writePc = "returned"
    /\ runErr' = IF writeErr # Nil
                 THEN "failed to display output: " \o writeErr
                 ELSE Nil
    /\ runPc' = "done"
    /\ UNCHANGED <<scanVars, queryVars, parseVars, supportVars, execVars, validateVars,
                   discVars, writeVars, filterVars, mappings, flags>>

InitRun ==
    /\ mappings = NewComponentMappingRegistry
    /\ ScanIdle
    /\ QueryIdle
    /\ ParseIdle
    /\ SupportIdle
    /\ ExecIdle
    /\ ValidateIdle
    /\ DiscoverIdle
    /\ FilterIdle
    /\ RunInit

\* run's own steps, those of executeScan and of the Scan it calls (whose
\* files all have a parser, discovery keeping .vue, .jsx and .tsx only) and
\* those of Write for the formats validateOptions lets through
NextRun ==
    \/ RunParseFlags
    \/ RunValidate
    \/ ExecDiscover
    \/ ExecNoFiles
    \/ ExecScan
    \/ Spawn
    \/ SpawnCloser
    \/ \E i \in Workers : WorkerReadFail(i)
    \/ \E i \in Workers : WorkerRead(i)
    \/ \E i \in Workers : WorkerParse(i)
    \/ \E i \in Workers : WorkerDone(i)
    \/ CloserWait
    \/ CloserClose
    \/ Collect
    \/ CollectExit
    \/ Build
    \/ ExecReturn
    \/ RunScanReturned
    \/ WriteTerminal
    \/ WriteJSON
    \/ WriteBoth
    \/ RunDisplayReturned

SpecRun == InitRun /\ [][NextRun]_vars

\* the scanner under a fair scheduler: a step that can be taken is taken
SpecFair == Init /\ [][Next]_vars /\ WF_vars(Next)

(***************************************************************************)
(* What the properties below speak of                                      *)
(***************************************************************************)
BagOfSeq(seq) ==
    [x \in Range(seq) |-> Cardinality({k \in DOMAIN seq : seq[k] = x})]

RECURSIVE BagSum(_, _)
BagSum(f, n) == IF n = 0 THEN EmptyBag ELSE BagSum(f, n - 1) (+) f[n]

RECURSIVE Flatten(_)
Flatten(seqs) == IF seqs = <<>> THEN <<>> ELSE Head(seqs) \o Flatten(Tail(seqs))

Unsupported(i) == ~VueSupportsFile(files[i]) /\ ~ReactSupportsFile(files[i])
ReadFails(i) == ~Unsupported(i) /\ files[i] \notin DOMAIN FileSystem
Parsed(i) == ~Unsupported(i) /\ files[i] \in DOMAIN FileSystem

\* what the parser claiming files[i] finds in it
RawMatches(i) ==
    IF VueSupportsFile(files[i])
    THEN VueParse(FileSystem[files[i]], files[i]).matches
    ELSE ReactParse(FileSystem[files[i]], files[i]).matches

Stamp(m) == [m EXCEPT !.ComponentType = componentType]
Classified(m) == MatchesComponentType(NewComponentMappingRegistry,
                                      m.ComponentName, componentType)

\* the classified matches of the file at position i
ClassifiedMatches(i) ==
    IF Parsed(i)
    THEN LET kept == SelectSeq(RawMatches(i), Classified)
         IN  [k \in DOMAIN kept |-> Stamp(kept[k])]
    ELSE <<>>

Delivered(i) == workerPc[i] \in {"sent", "done"}
Returned == mainPc = "done"

\* C1: every per-file contribution is delivered exactly once. In every state
\* the matches collected so far together with those still buffered in the
\* channel are, as a multiset, the classified matches of the files whose
\* goroutine has sent; when Scan has returned, ScanResult.Matches is the
\* multiset union of the classified matches of every position of files.
C1_ExactlyOnce ==
    /\ BagOfSeq(allMatches) (+) BagOfSeq(Flatten(matchChan))
         = BagSum([i \in Workers |->
                     IF Delivered(i) THEN BagOfSeq(ClassifiedMatches(i))
                     ELSE EmptyBag], Len(files))
    /\ Returned =>
         BagOfSeq(ret.result.Matches)
           = BagSum([i \in Workers |-> BagOfSeq(ClassifiedMatches(i))], Len(files))

\* two files that both contribute matches, one of them twice over
C1_Witness ==
    /\ Returned
    /\ Len(files) = 2
    /\ \A i \in Workers : ClassifiedMatches(i) # <<>>
    /\ \E m \in Range(ret.result.Matches) : BagOfSeq(ret.result.Matches)[m] = 2

\* C2: a read failure never aborts the scan. When Scan has returned, the error
\* is nil, the result is not, no match comes from a file whose read failed and
\* every classified match of every other file is in the result.
C2_ReadFailureAbsorbed ==
    Returned =>
        /\ ret.err = Nil
        /\ ~ret.resultIsNil
        /\ \A i \in Workers :
              IF ReadFails(i)
              THEN \A m \in Range(ret.result.Matches) : m.FilePath # files[i]
              ELSE \A m \in Range(ClassifiedMatches(i)) :
                        m \in Range(ret.result.Matches)

\* the scan of a file that cannot be read and of one that has matches
C2_Witness ==
    /\ Returned
    /\ \E i \in Workers : ReadFails(i)
    /\ \E i \in Workers : ClassifiedMatches(i) # <<>>
    /\ ret.result.TotalCount > 0

AllFinished ==
    /\ Returned
    /\ \A i \in Workers : workerPc[i] = "done"
    /\ closerPc = "done"
    /\ chanClosed
    /\ matchChan = <<>>

\* C3: Scan terminates. Under a fair scheduler every per-file goroutine
\* finishes, the channel is closed, the collector's loop exits and Scan
\* returns; and no state before the return is a deadlock.
C3_ScanTerminates ==
    /\ [](Returned \/ ENABLED Next)
    /\ <>AllFinished

\* a scan of an unsupported and of an unreadable file that has returned
C3_Witness ==
    /\ AllFinished
    /\ \E i \in Workers : Unsupported(i)
    /\ \E i \in Workers : ReadFails(i)

\* C4: in the ScanResult returned, ScannedFiles is len(files), TotalCount is
\* len(Matches) and ComponentType is the requested type as supplied.
C4_ResultFields ==
    Returned =>
        /\ ret.result.ScannedFiles = Len(files)
        /\ ret.result.TotalCount = Len(ret.result.Matches)
        /\ ret.result.ComponentType = componentType

\* two files, one of them never parsed, a mixed-case type and some matches
C4_Witness ==
    /\ Returned
    /\ ret.result.ScannedFiles = 2
    /\ \E i \in Workers : ~Parsed(i)
    /\ ret.result.TotalCount > 0
    /\ componentType # ToLower(componentType)

\* C5: every match returned is classified under the requested type, carries
\* the requested type exactly as supplied and the path of an input file; and
\* every raw match of a parsed file that is classified is returned.
C5_MatchesClassified ==
    Returned =>
        /\ \A m \in Range(ret.result.Matches) :
              /\ Classified(m)
              /\ m.ComponentType = componentType
              /\ m.FilePath \in Range(files)
        /\ \A i \in Workers : Parsed(i) =>
              \A m \in Range(RawMatches(i)) :
                  Classified(m) => Stamp(m) \in Range(ret.result.Matches)

\* a mixed-case type, a match kept and a raw match dropped
C5_Witness ==
    /\ Returned
    /\ componentType = "Button"
    /\ ret.result.Matches # <<>>
    /\ \E i \in Workers : Parsed(i) /\ \E m \in Range(RawMatches(i)) : ~Classified(m)

(***************************************************************************)
(* The registry's classification                                           *)
(***************************************************************************)
KnownType(t) == ToLower(t) \in {"form", "button", "dialog"}

\* the literal names registered in any library group of a known type
RegisteredNames(t) ==
    LET groups == NewComponentMappingRegistry[ToLower(t)].Patterns
    IN  UNION {Range(groups[lib]) : lib \in DOMAIN groups}

AllRegisteredNames == UNION {RegisteredNames(t) : t \in {"form", "button", "dialog"}}

\* C6: for a type that is a registry key after lower-casing, a name matches
\* exactly when it is, letter case aside, one of the names registered for the
\* type; a name that extends a registered name does not match.
C6_KnownTypeExact ==
    (queryPc = "returned" /\ KnownType(queryType)) =>
        (queryResult <=>
            \E n \in RegisteredNames(queryType) : ToLower(queryName) = ToLower(n))

\* Q-FORM is a form, whatever the case of the type
C6_Witness ==
    /\ queryPc = "returned"
    /\ queryName = "Q-FORM"
    /\ queryType = "Form"
    /\ queryResult

\* C7, as stated: for a type with no registry entry a name matches exactly
\* when it is, letter case aside, the type string, and no registered name of
\* a known type matches.
C7_Original ==
    (queryPc = "returned" /\ ~KnownType(queryType)) =>
        /\ queryResult <=> (ToLower(queryName) = ToLower(queryType))
        /\ queryName \in AllRegisteredNames => ~queryResult

\* C7, amended: for a type with no registry entry a name matches exactly when
\* it is, letter case aside, the type string; so a registered name of a known
\* type matches only when the type string is that name, letter case aside.
C7_UnknownTypeLiteral ==
    (queryPc = "returned" /\ ~KnownType(queryType)) =>
        /\ queryResult <=> (ToLower(queryName) = ToLower(queryType))
        /\ (queryName \in AllRegisteredNames /\ queryResult) =>
              ToLower(queryName) = ToLower(queryType)

\* widget matches the unknown type Widget
C7_Witness ==
    /\ queryPc = "returned"
    /\ queryName = "widget"
    /\ queryType = "Widget"
    /\ queryResult

(***************************************************************************)
(* What the README promises                                                *)
(***************************************************************************)
\* the names of all opening tags of a text, whatever their letter case
OpeningTags(text) ==
    UNION {Range(FindAllTags(l, 1, TemplateFirst, TemplateRest)) :
              l \in Range(SplitLines(text))}

\* C8: a scan for form, button or dialog reports the native element of that
\* name used in a parsed file.
C8_NativeElementsReported ==
    (Returned /\ KnownType(componentType)) =>
        \A i \in Workers :
            (Parsed(i) /\ ToLower(componentType) \in OpeningTags(FileSystem[files[i]]))
                => \E m \in Range(ret.result.Matches) :
                      /\ m.FilePath = files[i]
                      /\ m.ComponentName = ToLower(componentType)

\* C9: a scan for the type custom reports every element the parsers found.
C9_CustomReportsAll ==
    (Returned /\ componentType = "custom") =>
        \A i \in Workers : Parsed(i) =>
            \A m \in Range(RawMatches(i)) : Stamp(m) \in Range(ret.result.Matches)

(***************************************************************************)
(* The parsers' per-line deduplication                                     *)
(***************************************************************************)
NoRepeat(ms) ==
    \A j, k \in DOMAIN ms :
        (ms[j].ComponentName = ms[k].ComponentName /\ ms[j].Line = ms[k].Line)
            => j = k

NameLines(ms) == {<<ms[k].ComponentName, ms[k].Line>> : k \in DOMAIN ms}

\* the <<name, line>> pairs of the tags of a region whose first line is base
TagLines(text, base, first, rest) ==
    LET lines == SplitLines(text)
    IN  UNION {{<<n, base + k - 1>> : n \in Range(FindAllTags(lines[k], 1, first, rest))} :
                  k \in DOMAIN lines}

NotDenied(pairs) == {pr \in pairs : ~isHTMLTag(pr[1])}

ParseReturned == parsePc = "returned"

\* the <<name, line>> pairs a pass over a region finds
TemplateTagLines(t) ==
    IF t.content = "" THEN {}
    ELSE NotDenied(TagLines(t.content, t.startLine, TemplateFirst, TemplateRest))

ScriptTagLines(s) ==
    IF s.content = "" THEN {}
    ELSE TagLines(s.content, s.startLine, JSXFirst, JSXRest)

\* C10, as stated: in the list Parse returns for one file no two matches
\* share name and line, and each name is there once for every line it opens a
\* tag on.
C10_Original ==
    ParseReturned =>
        /\ NoRepeat(matches)
        /\ NameLines(matches) =
              IF parseKind = "react"
              THEN TagLines(parseContent, 1, JSXFirst, JSXRest)
              ELSE TemplateTagLines(extractTemplateSection(parseContent))
                     \cup ScriptTagLines(extractScriptSection(parseContent))

\* C10, amended: within one pass (the whole file for the React parser, the
\* template region and the script region for the Vue parser) no two matches
\* share name and line, and the pass reports each name once for every line it
\* opens a tag on, so the same name on two lines gives two matches and two
\* names on one line give two; the list returned is the template pass followed
\* by the script pass.
C10_DedupPerPass ==
    ParseReturned =>
        IF parseKind = "react"
        THEN /\ NoRepeat(matches)
             /\ NameLines(matches) = TagLines(parseContent, 1, JSXFirst, JSXRest)
        ELSE /\ NoRepeat(templateMatches)
             /\ NoRepeat(jsxMatches)
             /\ NameLines(templateMatches) =
                  TemplateTagLines(extractTemplateSection(parseContent))
             /\ NameLines(jsxMatches) =
                  ScriptTagLines(extractScriptSection(parseContent))
             /\ matches = templateMatches \o jsxMatches

\* a .vue file of one line with Foo twice in the template and twice in the
\* script: each pass reports Foo once, the list returned holds it twice
C10_Witness ==
    /\ ParseReturned
    /\ parseKind = "vue"
    /\ parseContent = VueLayout(3, "<Foo><Foo>")
    /\ Len(templateMatches) = 1
    /\ Len(jsxMatches) = 1
    /\ Len(matches) = 2

(***************************************************************************)
(* The line a match is reported on                                         *)
(***************************************************************************)
\* the 1-based line of the whole text on which position pos lies
LineOfPos(text, pos) == CountNewlines(SubSeq(text, 1, pos - 1)) + 1

\* "<name" stands somewhere on the given 1-based line of text
OccursOnLine(text, name, line) ==
    \E pos \in 1..Len(text) :
        /\ pos + Len(name) <= Len(text)
        /\ SubSeq(text, pos, pos + Len(name)) = "<" \o name
        /\ LineOfPos(text, pos) = line

\* the position of the first character after the opening delimiter of the
\* first <tag ...> of text
RegionFirst(text, tag) ==
    IndexFrom(text, ">", IndexFrom(text, "<" \o tag, 1)) + 1

\* the matches ms of a pass over region `sec` of the <tag> section lie on the
\* line base + offset, the base being the file line of the region's first
\* character and the offset the zero-based line inside the region
OnRegionLines(ms, sec, tag, first, rest) ==
    \A k \in DOMAIN ms :
        LET lines == SplitLines(sec.content)
            offset == ms[k].Line - sec.startLine
        IN  /\ sec.startLine = LineOfPos(parseContent, RegionFirst(parseContent, tag))
            /\ offset \in 0..(Len(lines) - 1)
            /\ ms[k].ComponentName \in Range(FindAllTags(lines[offset + 1], 1, first, rest))

\* C11: every match Parse returns carries a positive line number, the 1-based
\* line of the whole file on which "<name" of the reported tag stands; for a
\* Vue region it is the file line of the region's first character plus the
\* zero-based line inside the region, also when the region starts below line 1
\* or its opening delimiter spans several lines.
C11_LineNumbers ==
    ParseReturned =>
        /\ \A k \in DOMAIN matches :
              /\ matches[k].Line >= 1
              /\ matches[k].Line <= Len(SplitLines(parseContent))
              /\ OccursOnLine(parseContent, matches[k].ComponentName, matches[k].Line)
        /\ parseKind = "vue" =>
              /\ OnRegionLines(templateMatches, extractTemplateSection(parseContent),
                               "template", TemplateFirst, TemplateRest)
              /\ OnRegionLines(jsxMatches, extractScriptSection(parseContent),
                               "script", JSXFirst, JSXRest)

\* a .vue file whose delimiters span two lines: the template region starts on
\* line 3, the script region on line 6; the tags of its second line are on
\* lines 4 and 7
C11_Witness ==
    /\ ParseReturned
    /\ parseKind = "vue"
    /\ parseContent = VueLayout(7, "<q-btn>\n<Foo>")
    /\ [k \in DOMAIN matches |-> <<matches[k].ComponentName, matches[k].Line>>]
          = <<<<"q-btn", 3>>, <<"Foo", 4>>, <<"Foo", 7>>>>

(***************************************************************************)
(* Which tags a pass reports                                               *)
(***************************************************************************)
\* at position p of line stands "<", then a name of n characters, the first of
\* class `first`, the others of class `rest`, then a character of [\s>/] or
\* the end of the line
OpensTag(line, p, n, first, rest) ==
    /\ CharAt(line, p) = "<"
    /\ p + n <= Len(line)
    /\ CharAt(line, p + 1) \in first
    /\ \A j \in 2..n : CharAt(line, p + j) \in rest
    /\ (p + n = Len(line) \/ CharAt(line, p + n + 1) \in TagEnd)

\* the <<name, line>> pairs of the opening tags of text, its first line being
\* line `base`
Candidates(text, base, first, rest) ==
    LET lines == SplitLines(text)
    IN  UNION {{<<SubSeq(lines[k], pn[1] + 1, pn[1] + pn[2]), base + k - 1>> :
                    pn \in {qm \in (1..Len(lines[k])) \X (1..Len(lines[k])) :
                               OpensTag(lines[k], qm[1], qm[2], first, rest)}} :
               k \in DOMAIN lines}

\* C12: the template pass leaves out a candidate tag name exactly when the
\* name is, letter for letter, on the all-lowercase denylist: no denylist name
\* is reported, whatever follows it in the tag, and every other candidate,
\* a denylist name spelled with an uppercase letter among them, is reported.
C12_DenylistExact ==
    (parseKind = "vue" /\ parsePc # "start") =>
        LET t == extractTemplateSection(parseContent)
            cands == Candidates(t.content, t.startLine, TemplateFirst, TemplateRest)
        IN  /\ NameLines(templateMatches) = {c \in cands : c[1] \notin htmlTags}
            /\ \A k \in DOMAIN templateMatches :
                  templateMatches[k].ComponentName \notin htmlTags

\* a template with <button class="a"> and <Div>: only Div is reported
C12_Witness ==
    /\ parseKind = "vue"
    /\ parsePc = "script"
    /\ parseContent = "<template><button class=\"a\"><Div>\n</template>"
    /\ [k \in DOMAIN templateMatches |-> templateMatches[k].ComponentName] = <<"Div">>

\* C13: ReactParser.Parse runs one pass over the whole file with line base 1
\* and reports exactly the opening tags whose name starts with an uppercase
\* letter, goes on with letters and digits only and is followed by white
\* space, ">", "/" or the end of the line, each with its file line; a name
\* that starts with a lowercase letter, a closing tag, a fragment and a name
\* with a hyphen or a dot are not reported, and no name is left out for being
\* on the denylist.
C13_ReactReportsJSXTags ==
    (parseKind = "react" /\ ParseReturned) =>
        /\ NameLines(matches) = Candidates(parseContent, 1, JSXFirst, JSXRest)
        /\ \A k \in DOMAIN matches :
              LET name == matches[k].ComponentName
              IN  /\ CharAt(name, 1) \in UpperLetters
                  /\ \A j \in 1..Len(name) : CharAt(name, j) \in Letters \cup Digits
                  /\ name \notin {"", "/Foo", "Foo.Bar", "Foo-bar"}

\* a .tsx file with <Form />  on its second line followed by a native <form>:
\* Form is reported on line 2, form is not
C13_Witness ==
    /\ parseKind = "react"
    /\ ParseReturned
    /\ parseContent = "x\n<Form /><form>"
    /\ [k \in DOMAIN matches |-> <<matches[k].ComponentName, matches[k].Line>>]
          = <<<<"Form", 2>>>>

(***************************************************************************)
(* The choice of a parser                                                  *)
(***************************************************************************)
\* the positions in s.parsers of the parsers that support files[i]
Supporters(i) == {k \in DOMAIN parsers : SupportsFile(parsers[k], files[i])}

\* every match that is buffered, collected or returned
MatchesAnywhere ==
    Range(Flatten(matchChan)) \cup Range(allMatches) \cup Range(ret.result.Matches)

\* C14: a file whose path no parser of the scanner supports is never read and
\* contributes no match, and the scan returns a nil error; a file whose path
\* more than one parser supports is given to the one that comes first in the
\* scanner's list.
C14_ParserChoice ==
    /\ \A i \in Workers :
          /\ Supporters(i) = {} =>
                /\ parser[i] = 0
                /\ content[i] = ""
                /\ \A m \in MatchesAnywhere : m.FilePath # files[i]
          /\ (Supporters(i) # {} /\ workerPc[i] \notin {"idle", "start"}) =>
                /\ parser[i] \in Supporters(i)
                /\ \A k \in Supporters(i) : parser[i] <= k
    /\ Returned => (ret.err = Nil /\ ~ret.resultIsNil)

\* a scan, by a scanner whose list holds the React parser first and last,
\* of a React file and of a text file with a <Form> tag: the first parser
\* took the React file, the text file gave nothing
C14_Witness ==
    /\ Returned
    /\ parsers = <<"react", "vue", "react">>
    /\ files = <<"b.tsx", "n.txt">>
    /\ parser = <<1, 0>>
    /\ content[2] = ""
    /\ ret.result.TotalCount = 1

(***************************************************************************)
(* Parse never fails                                                       *)
(***************************************************************************)
\* text holds "<tag", later ">", later "</tag>": a delimited region
HasRegion(text, tag) ==
    \E p \in 1..Len(text) :
        /\ IndexFrom(text, "<" \o tag, p) = p
        /\ \E g \in (p + Len(tag) + 1)..Len(text) :
              /\ CharAt(text, g) = ">"
              /\ IndexFrom(text, "</" \o tag \o ">", g + 1) # 0

\* the region is missing, or there but empty
NoRegion(text, tag) ==
    ~HasRegion(text, tag) \/ ExtractSection(text, tag).content = ""

\* C15: Parse returns a nil error whatever the content, empty, malformed or
\* unbalanced; in the Vue parser a missing or empty template region gives no
\* match from the template pass and a missing script region none from the
\* script pass, and the other pass reports the tags of its own region all
\* the same.
C15_ParseNeverFails ==
    ParseReturned =>
        /\ parseErr = Nil
        /\ parseKind = "vue" =>
              /\ NoRegion(parseContent, "template") => templateMatches = <<>>
              /\ NoRegion(parseContent, "script") => jsxMatches = <<>>
              /\ ~NoRegion(parseContent, "template") =>
                    NameLines(templateMatches) =
                        LET t == extractTemplateSection(parseContent)
                        IN  {c \in Candidates(t.content, t.startLine,
                                              TemplateFirst, TemplateRest) :
                                c[1] \notin htmlTags}
              /\ ~NoRegion(parseContent, "script") =>
                    NameLines(jsxMatches) =
                        LET sc == extractScriptSection(parseContent)
                        IN  Candidates(sc.content, sc.startLine, JSXFirst, JSXRest)

\* a .vue file whose template is never closed: the template pass gives
\* nothing, the script pass its tag, and the error is nil
C15_Witness ==
    /\ ParseReturned
    /\ parseKind = "vue"
    /\ parseContent = VueLayout(8, "<Foo>")
    /\ ~HasRegion(parseContent, "template")
    /\ templateMatches = <<>>
    /\ Len(jsxMatches) = 1
    /\ parseErr = Nil

(***************************************************************************)
(* Which paths a parser claims                                             *)
(***************************************************************************)
\* path ends, letter case aside, in the four characters of ext
EndsInFold(path, ext) ==
    /\ Len(path) >= 4
    /\ \A j \in 1..4 :
          LowerChar(CharAt(path, Len(path) - 4 + j)) = CharAt(ext, j)

\* C16: VueParser.SupportsFile is true exactly for the paths that end in
\* .vue and ReactParser.SupportsFile exactly for those that end in .jsx or
\* .tsx, in any letter case; no path is claimed by both.
C16_SuffixSelection ==
    supportPc = "returned" =>
        /\ vueSupports <=> EndsInFold(supportPath, ".vue")
        /\ reactSupports <=>
              (EndsInFold(supportPath, ".jsx") \/ EndsInFold(supportPath, ".tsx"))
        /\ ~(vueSupports /\ reactSupports)

\* x.vue.Jsx is a React file and not a Vue file
C16_Witness ==
    /\ supportPc = "returned"
    /\ supportPath = "x.vue.Jsx"
    /\ reactSupports
    /\ ~vueSupports

(***************************************************************************)
(* Nothing to scan                                                         *)
(***************************************************************************)
\* the ScanResult for no file at all
ZeroResult(cType) ==
    [Matches |-> <<>>, TotalCount |-> 0, ComponentType |-> cType, ScannedFiles |-> 0]

\* the scanner was never entered
ScannerUntouched ==
    /\ mainPc = "idle"
    /\ spawned = 0
    /\ files = <<>>
    /\ ret = NoReturn

\* the walk from options.Directory succeeds and keeps no file
NothingDiscovered ==
    /\ Exists(options.Directory)
    /\ \A entry \in Range(WalkList(options.Directory)) :
          walkFn(<<>>, entry, options.Directory, ExecFilter(options)) = <<>>

\* C17: Scan of the empty file list returns no match, TotalCount 0,
\* ScannedFiles 0 and a nil error; executeScan returns that same zero result,
\* with a nil error and without entering the scanner, when discovery finds no
\* file.
C17_NothingToScan ==
    /\ (Returned /\ files = <<>>) =>
          /\ ret.result = ZeroResult(componentType)
          /\ ~ret.resultIsNil
          /\ ret.err = Nil
    /\ (execPc = "done" /\ NothingDiscovered) =>
          /\ execRet.result = ZeroResult(options.ComponentType)
          /\ ~execRet.resultIsNil
          /\ execRet.err = Nil
          /\ ScannerUntouched

\* executeScan on node_modules, where every file is excluded
C17_Witness ==
    /\ execPc = "done"
    /\ options.Directory = "node_modules"
    /\ NothingDiscovered
    /\ execRet.result.ScannedFiles = 0
    /\ execRet.err = Nil
    /\ ScannerUntouched

(***************************************************************************)
(* The validation of the options                                           *)
(***************************************************************************)
TypeAccepted == options.ComponentType \in {"form", "button", "dialog", "custom"}
OutputAccepted == options.OutputFormat \in {"terminal", "json", "both"}
\* os.Stat does not report that options.Directory is missing
DirectoryFound == Stat(options.Directory) # "notexist"

\* C18: validateOptions accepts the component types form, button, dialog and
\* custom and the output formats terminal, json and both, each in exactly
\* that spelling, and nothing else; it checks the component type, then the
\* output format, then that the directory exists, and returns the error of
\* the first check that fails; it returns nil exactly when all three pass.
C18_ValidationOrder ==
    validatePc = "returned" =>
        /\ (validateErr = Nil) <=> (TypeAccepted /\ OutputAccepted /\ DirectoryFound)
        /\ ~TypeAccepted => HasPrefix(validateErr, "invalid component type '")
        /\ (TypeAccepted /\ ~OutputAccepted) =>
              HasPrefix(validateErr, "invalid output format '")
        /\ (TypeAccepted /\ OutputAccepted /\ ~DirectoryFound) =>
              validateErr = "directory not found: " \o options.Directory

\* the type Form, the format xml and a missing directory: all three checks
\* fail and the error is that of the component type
C18_Witness ==
    /\ validatePc = "returned"
    /\ options.ComponentType = "Form"
    /\ options.OutputFormat = "xml"
    /\ options.Directory = "missing"
    /\ validateErr = "invalid component type 'Form': must be one of: form, button, dialog, custom"

(***************************************************************************)
(* What discovery returns                                                  *)
(***************************************************************************)
\* the path components of the directory dir lead to the file at relPath
LiesIn(relPath, dir) ==
    LET parts == Split(relPath, "/")
        dirParts == IF Clean(dir) = "." THEN <<>> ELSE Split(Clean(dir), "/")
    IN  /\ Len(dirParts) < Len(parts)
        /\ SubSeq(parts, 1, Len(dirParts)) = dirParts

\* a file that discovery is to return
Wanted(entry) ==
    /\ ~entry.isDir
    /\ \A pattern \in Range(discFilter.ExcludePatterns) : ~Contains(entry.path, pattern)
    /\ \/ discFilter.FileExtensions = <<>>
       \/ \E e \in Range(discFilter.FileExtensions) : HasSuffix(entry.path, e)
    /\ \/ discFilter.IncludeDirectories = <<>>
       \/ \E dir \in Range(discFilter.IncludeDirectories) :
              LiesIn(Rel(discRoot, entry.path), dir)

\* C19: DiscoverFiles returns a path exactly when it is a non-directory entry
\* under rootDir that no exclude pattern matches, whose extension is in
\* FileExtensions (or that list is empty) and that lies in a directory of
\* IncludeDirectories or below one (or that list is empty); with the
\* filter of the CLI nothing under node_modules and no test or spec file is
\* returned.
C19_DiscoverExact ==
    (discPc = "returned" /\ discErr = Nil) =>
        /\ Range(discFiles) =
              {entry.path : entry \in {e \in Range(WalkList(discRoot)) : Wanted(e)}}
        /\ discFilter.ExcludePatterns =
              <<"node_modules", "test", "tests", "__tests__", ".test.", ".spec.">>
              => \A f \in Range(discFiles) :
                    /\ ~Contains(f, "node_modules")
                    /\ ~Contains(f, "test")
                    /\ ~Contains(f, ".spec.")

\* the file Write is to produce: outputPath, or ui-elf-results.json when
\* outputPath is empty
WriteTarget == IF writePath = "" THEN "ui-elf-results.json" ELSE writePath

BeforeSend(i) == workerPc[i] \in {"start", "read"}

\* the send of the goroutine at position i can be taken now
CanSend(i) ==
    IF workerPc[i] = "start"
    THEN ENABLED (WorkerNoParser(i) \/ WorkerReadFail(i) \/ WorkerRead(i))
    ELSE ENABLED WorkerParse(i)

\* C21: no producer blocks on delivery. In every reachable state at most
\* len(files) messages are buffered and a goroutine that has its send before
\* it can take its next step at once; a step appends a message to the channel
\* exactly when one goroutine passes its send, it appends one message, and a
\* goroutine that has sent never returns to a point before its send.
C21_NoProducerBlocks ==
    /\ [](Len(matchChan) <= Len(files))
    /\ [](\A i \in Workers : BeforeSend(i) => CanSend(i))
    /\ [][ /\ Len(matchChan') > Len(matchChan) =>
                /\ Len(matchChan') = Len(matchChan) + 1
                /\ Cardinality({i \in Workers : BeforeSend(i) /\ Delivered(i)'}) = 1
           /\ \A i \in Workers :
                /\ (BeforeSend(i) /\ Delivered(i)') => Len(matchChan') = Len(matchChan) + 1
                /\ Delivered(i) => Delivered(i)'
         ]_vars

\* the channel is full (two files, two buffered messages) before the
\* collector has received anything: one goroutine found no parser, the other
\* could not read its file
C21_Witness ==
    /\ Len(files) = 2
    /\ Len(matchChan) = 2
    /\ mainPc = "loop"
    /\ \E i \in Workers : Unsupported(i)
    /\ \E i \in Workers : ReadFails(i)

\* C22: the channel is closed only when every per-file goroutine has sent and
\* signalled completion (all are done and the WaitGroup counter is 0), no
\* step sends on the closed channel and the runtime never panics; the
\* collector is past its loop (building or returned) only when the channel is
\* closed and empty and every goroutine is done, so that every message sent
\* has been received.
C22_CloseAfterAllSent ==
    /\ [](chanClosed => (wg = 0 /\ spawned = Len(files)
                           /\ \A i \in Workers : workerPc[i] = "done"))
    /\ [](~panicked)
    /\ [][Len(matchChan') > Len(matchChan) => (~chanClosed /\ ~chanClosed')]_vars
    /\ [](mainPc \in {"build", "done"} =>
             /\ chanClosed
             /\ matchChan = <<>>
             /\ \A i \in Workers : workerPc[i] = "done")

\* the channel has been closed while both messages are still buffered and the
\* collector has not received any
C22_Witness ==
    /\ chanClosed
    /\ Len(files) = 2
    /\ Len(matchChan) = 2
    /\ mainPc = "collect"
    /\ \E i \in Workers : ClassifiedMatches(i) # <<>>

(***************************************************************************)
(* The two passes of the Vue parser                                        *)
(***************************************************************************)
\* C23: when VueParser.Parse has returned, the script pass has reported
\* exactly the opening tags of the script region whose name starts with an
\* uppercase letter and goes on with letters and digits, so none that starts
\* with a lowercase letter or holds a hyphen; the template pass has reported
\* exactly the opening tags of the template region whose name starts with a
\* letter, goes on with letters, digits and hyphens and is not on the
\* denylist.
C23_ScriptPassUppercaseOnly ==
    (parseKind = "vue" /\ ParseReturned) =>
        LET t == extractTemplateSection(parseContent)
            sc == extractScriptSection(parseContent)
        IN  /\ NameLines(jsxMatches) = Candidates(sc.content, sc.startLine, JSXFirst, JSXRest)
            /\ \A k \in DOMAIN jsxMatches :
                  LET name == jsxMatches[k].ComponentName
                  IN  /\ CharAt(name, 1) \in UpperLetters
                      /\ \A j \in 1..Len(name) : CharAt(name, j) \in Letters \cup Digits
            /\ NameLines(templateMatches) =
                  {c \in Candidates(t.content, t.startLine, TemplateFirst, TemplateRest) :
                      c[1] \notin htmlTags}
            /\ \A k \in DOMAIN templateMatches :
                  LET name == templateMatches[k].ComponentName
                  IN  /\ CharAt(name, 1) \in Letters
                      /\ \A j \in 1..Len(name) :
                            CharAt(name, j) \in Letters \cup Digits \cup {"-"}

\* <q-btn><Div> in the template and in the script: the template pass reports
\* both, the script pass only Div
C23_Witness ==
    /\ parseKind = "vue"
    /\ ParseReturned
    /\ parseContent = "<template><q-btn><Div>\n</template>\n<script>\n<q-btn><Div>\n</script>"
    /\ NameLines(templateMatches) = {<<"q-btn", 1>>, <<"Div", 1>>}
    /\ NameLines(jsxMatches) = {<<"Div", 4>>}

(***************************************************************************)
(* The registry under the scanner's goroutines                             *)
(***************************************************************************)
\* C24: the registry is read-only after construction. In every state of a
\* scan the mapping table is the one NewComponentMappingRegistry built and no
\* step changes it; so the message the goroutine of a file sends is, whatever
\* the other goroutines have done before, the classification of that file's
\* matches by the table as constructed.
C24_RegistryReadOnly ==
    /\ [](mappings = NewComponentMappingRegistry)
    /\ [][ /\ mappings' = mappings
           /\ \A i \in Workers :
                (BeforeSend(i) /\ Delivered(i)') =>
                    matchChan' = Append(matchChan, ClassifiedMatches(i))
         ]_vars

\* the same file scanned twice for a type the registry does not know: both
\* goroutines have classified Widget
C24_Witness ==
    /\ Returned
    /\ files = <<"a.vue", "a.vue">>
    /\ componentType = "Widget"
    /\ ret.result.TotalCount = 2

(***************************************************************************)
(* filterByComponentType and its argument                                  *)
(***************************************************************************)
\* the matches of ms the registry classifies under filterType, in their
\* order in ms
KeptOf(ms) ==
    SelectSeq(ms, LAMBDA m : MatchesComponentType(NewComponentMappingRegistry,
                                                  m.ComponentName, filterType))

\* C25: filterByComponentType leaves its input unchanged. No step of the loop
\* changes the slice it was given, whose elements keep the empty
\* ComponentType the parser gave them; what it returns is, in the order of
\* the input, a copy of each input match the registry classifies under the
\* requested type, equal to it in FilePath, Line and ComponentName and with
\* ComponentType set to the requested type as supplied; and the loop as
\* modelled here returns what the scanner's filterByComponentType returns.
C25_FilterLeavesInput ==
    /\ [][filterMatches' = filterMatches]_vars
    /\ [](\A k \in DOMAIN filterMatches : filterMatches[k].ComponentType = "")
    /\ [](filterPc = "returned" =>
            LET kept == KeptOf(filterMatches)
            IN  /\ Len(filtered) = Len(kept)
                /\ \A k \in DOMAIN kept :
                      /\ filtered[k].FilePath = kept[k].FilePath
                      /\ filtered[k].Line = kept[k].Line
                      /\ filtered[k].ComponentName = kept[k].ComponentName
                      /\ filtered[k].ComponentType = filterType
                /\ filtered = filterByComponentType(mappings, filterMatches, filterType))

\* Form, Btn, Form, MuiForm, Widget filtered for FORM: Form, Form and MuiForm
\* are returned in that order with the type FORM, the input still has the
\* empty type
C25_Witness ==
    /\ filterPc = "returned"
    /\ filterType = "FORM"
    /\ [k \in DOMAIN filterMatches |-> filterMatches[k].ComponentName]
          = <<"Form", "Btn", "Form", "MuiForm", "Widget">>
    /\ [k \in DOMAIN filtered |-> <<filtered[k].ComponentName, filtered[k].Line,
                                    filtered[k].ComponentType>>]
          = <<<<"Form", 1, "FORM">>, <<"Form", 3, "FORM">>, <<"MuiForm", 4, "FORM">>>>
    /\ \A k \in DOMAIN filterMatches : filterMatches[k].ComponentType = ""

(***************************************************************************)
(* The order of the aggregate                                              *)
(***************************************************************************)
\* the sequences of n different positions of files taken from S
Orders(S, n) == {o \in [1..n -> S] : \A j, k \in 1..n : o[j] = o[k] => j = k}

\* the per-file lists of the positions of o, one after the other
Blocks(o) == Flatten([k \in DOMAIN o |-> ClassifiedMatches(o[k])])

\* C26: matches of two files are never interleaved. In every state the
\* matches collected so far followed by those still buffered are the
\* classified lists of the goroutines that have sent, each list whole and in
\* the parser's order, one after the other in some order of those goroutines;
\* when Scan has returned, ScanResult.Matches is the concatenation of the
\* per-file lists in some permutation of the positions of files.
C26_ContiguousBlocks ==
    /\ LET sent == {i \in Workers : Delivered(i)}
       IN  \E o \in Orders(sent, Cardinality(sent)) :
              allMatches \o Flatten(matchChan) = Blocks(o)
    /\ Returned =>
          \E o \in Orders(Workers, Len(files)) : ret.result.Matches = Blocks(o)

\* a.vue then b.tsx scanned for forms: the result holds the one match of
\* b.tsx first and the three of a.vue after it
C26_Witness ==
    /\ Returned
    /\ files = <<"a.vue", "b.tsx">>
    /\ componentType = "form"
    /\ Len(ClassifiedMatches(1)) = 3
    /\ Len(ClassifiedMatches(2)) = 1
    /\ ret.result.Matches = ClassifiedMatches(2) \o ClassifiedMatches(1)

(***************************************************************************)
(* The order of the list VueParser.Parse returns                           *)
(***************************************************************************)
\* the lines of ms never go down
LinesAscend(ms) == \A j, k \in DOMAIN ms : j < k => ms[j].Line <= ms[k].Line

\* the script region ends on a line before the one the template region
\* starts on
ScriptLinesFirst ==
    LET t == extractTemplateSection(parseContent)
        sc == extractScriptSection(parseContent)
    IN  /\ t.content # ""
        /\ sc.content # ""
        /\ sc.startLine + CountNewlines(sc.content) < t.startLine

Positions(text, sub) ==
    {q \in 1..Len(text) : q + Len(sub) - 1 <= Len(text)
                            /\ SubSeq(text, q, q + Len(sub) - 1) = sub}

Least(S) == CHOOSE x \in S : \A y \in S : x <= y

\* the first <tag ...> region of text: it starts after the first ">" that
\* follows the first "<tag" and ends before the first "</tag>" after that
FirstRegion(text, tag) ==
    LET opens == Positions(text, "<" \o tag)
        gts == IF opens = {} THEN {}
               ELSE {q \in Positions(text, ">") : q >= Least(opens) + Len(tag) + 1}
        closes == IF gts = {} THEN {}
                  ELSE {q \in Positions(text, "</" \o tag \o ">") : q > Least(gts)}
    IN  IF closes = {}
        THEN [found |-> FALSE, from |-> 0, to |-> 0]
        ELSE [found |-> TRUE, from |-> Least(gts) + 1, to |-> Least(closes) - 1]

\* every match of ms is a tag that stands inside region r of the file, on the
\* line reported
InsideRegion(ms, r) ==
    \A k \in DOMAIN ms :
        /\ r.found
        /\ \E q \in r.from..r.to :
              /\ q + Len(ms[k].ComponentName) <= r.to
              /\ SubSeq(parseContent, q, q + Len(ms[k].ComponentName))
                    = "<" \o ms[k].ComponentName
              /\ LineOfPos(parseContent, q) = ms[k].Line

\* the <<name, line>> pairs of the opening tags inside region r of the file
RegionCandidates(r, first, rest) ==
    IF ~r.found THEN {}
    ELSE Candidates(SubSeq(parseContent, r.from, r.to),
                    LineOfPos(parseContent, r.from), first, rest)

\* C28: each pass of the Vue parser scans the first region of its kind only,
\* from the end of the first opening delimiter to the first closing delimiter
\* after it. Every match of a pass is a tag standing between the two, and the
\* pass reports exactly the tags standing there (the template pass those not
\* on the denylist); a tag after that first closing delimiter, as after the
\* closing tag of a nested template element or in a second script block, is
\* not reported by the pass.
C28_FirstRegionOnly ==
    (parseKind = "vue" /\ ParseReturned) =>
        LET t == FirstRegion(parseContent, "template")
            sc == FirstRegion(parseContent, "script")
        IN  /\ InsideRegion(templateMatches, t)
            /\ InsideRegion(jsxMatches, sc)
            /\ NameLines(templateMatches) =
                  {c \in RegionCandidates(t, TemplateFirst, TemplateRest) :
                      c[1] \notin htmlTags}
            /\ NameLines(jsxMatches) = RegionCandidates(sc, JSXFirst, JSXRest)

\* a template with a nested template element and a file with two script
\* blocks, <Foo> everywhere: the template pass reports the Foo inside the
\* nested element (line 1), not the one after its closing tag (line 2); the
\* script pass reports the Foo of the first block (line 3), not that of the
\* second (line 5)
C28_Witness ==
    /\ parseKind = "vue"
    /\ ParseReturned
    /\ parseContent = VueLayout(10, "<Foo>")
    /\ OccursOnLine(parseContent, "Foo", 2)
    /\ OccursOnLine(parseContent, "Foo", 5)
    /\ [k \in DOMAIN matches |-> <<matches[k].ComponentName, matches[k].Line>>]
          = <<<<"Foo", 1>>, <<"Foo", 3>>>>

(***************************************************************************)
(* The stages of Controller.run                                            *)
(***************************************************************************)
\* a stage has returned an error
Failed(err) == err \notin {Nil, Unreturned}

\* the steps run may take from one position to the next
RunOrder ==
    {<<"parseFlags", "validate">>, <<"validate", "scan">>, <<"scan", "display">>,
     <<"parseFlags", "done">>, <<"validate", "done">>, <<"scan", "done">>,
     <<"display", "done">>}

\* C29: run goes through parse flags, validate options, discover and scan,
\* display output in that order and stops at the first error. executeScan is
\* entered, and a Scan started, only with the options parseFlags built and
\* after validateOptions has returned nil; Write is called only after
\* executeScan has returned without error; the standard output and the files
\* change only in the display stage; when validateOptions or executeScan has
\* returned an error, run returns an error, no later stage has been entered
\* and nothing has been printed or written; run returns nil only when no
\* stage has failed.
C29_StagesInOrder ==
    /\ [][runPc' # runPc => <<runPc, runPc'>> \in RunOrder]_vars
    /\ [][(stdout' # stdout \/ disk' # disk) =>
             (runPc = "display" /\ validateErr = Nil /\ execRet.err = Nil)]_vars
    /\ [](validatePc # "idle" =>
             (runPc # "parseFlags" /\ options = parseFlags(flags).options))
    /\ []((execPc # "idle" \/ mainPc # "idle") =>
             (runPc \in {"scan", "display", "done"} /\ validateErr = Nil))
    /\ [](writePc # "idle" =>
             (runPc \in {"display", "done"} /\ execPc = "done" /\ execRet.err = Nil))
    /\ [](Failed(validateErr) =>
             /\ runPc = "done"
             /\ Failed(runErr)
             /\ execPc = "idle"
             /\ mainPc = "idle"
             /\ writePc = "idle"
             /\ stdout = "")
    /\ [](Failed(execRet.err) =>
             /\ runPc \in {"scan", "done"}
             /\ (runPc = "done" => Failed(runErr))
             /\ writePc = "idle"
             /\ stdout = "")
    /\ []((runPc = "done" /\ runErr = Nil) =>
             (validateErr = Nil /\ execPc = "done" /\ execRet.err = Nil
                /\ writePc = "returned" /\ writeErr = Nil))

\* a run for forms in src with the output both has returned nil: the scan
\* found matches, the terminal output was printed and an older
\* ui-elf-results.json replaced
C29_Witness ==
    /\ runPc = "done"
    /\ runErr = Nil
    /\ flags.directory = "src"
    /\ flags.output = "both"
    /\ mainPc = "done"
    /\ execRet.result.TotalCount > 0
    /\ Contains(stdout, "Total components found: ")
    /\ disk["ui-elf-results.json"] = FormatJSON(writeResult)

(***************************************************************************)
(* Discovery from two roots with the same content                          *)
(***************************************************************************)
\* what lies below the directory root, each entry under its path relative
\* to root
Subtree(root) ==
    {[path |-> Rel(root, WalkList(root)[k].path), isDir |-> WalkList(root)[k].isDir] :
        k \in 2..Len(WalkList(root))}

\* two directories that hold the same entries
SameSubtree(rootA, rootB) ==
    /\ Clean(rootA) \in TreeDirs
    /\ Clean(rootB) \in TreeDirs
    /\ Subtree(rootA) = Subtree(rootB)

\* the paths of found, relative to root
RelPaths(root, found) == {Rel(root, found[k]) : k \in DOMAIN found}

\* C30: whether DiscoverFiles excludes a file depends only on the file's path
\* relative to rootDir: when DiscoverFiles has returned for a root, then for
\* the same filter it returns the same set of relative paths from every
\* other root with an identical subtree, also when that root's own path
\* contains an exclude pattern such as test.
C30_RootIndependent ==
    (discPc = "returned" /\ discErr = Nil) =>
        \A other \in DiscoverRoots :
            SameSubtree(discRoot, other) =>
                RelPaths(discRoot, discFiles) =
                    RelPaths(other, DiscoverFiles(other, discFilter).files)

====
